---- MODULE Spec2Model ----
(***************************************************************************)
(* Tape simplification of fidget's VmData (src/fidget/src/core/vm/data.rs) *)
(* as a state machine: one action per call/return and per arm of the match *)
(* in the main loop of VmData::simplify.                                   *)
(*                                                                         *)
(* An op is the record [k, out, a, b, imm]: k is the opcode, out the       *)
(* output slot, a and b the operand slots (a is the axis of an Input and   *)
(* the id of a Var), imm the immediate. Unused fields are 0. Immediates    *)
(* and input values are small integers standing for f32 values.           *)
(* A tape is stored root first; slot s is entry s + 1 of bind.             *)
(***************************************************************************)
EXTENDS Integers, Sequences, FiniteSets, TLC

\* Longest source tape that is enumerated in full
MaxOps == 3

\* Number of registers N of VmData<N>
RegLimit == 3

\* Number of simplify calls in a run (the result of one is the source of the next)
MaxCalls == 2

\* The "not bound" marker of the bind table, u32::MAX in the code: the largest
\* value of the type of a name. TLC's integers end at 2^31 - 1, which stands
\* for it here.
SENTINEL == 2147483647

\* Largest tape_len of a VmWorkspace::reset that the caller makes itself
MaxReset == 3

\* Most ops of an enumerated source tape that two threads simplify at once
MaxParOps == 2

\* Most ops pushed to a Tape by hand, and the largest memory slot they name
MaxTapeLen == 3
MaxMem == 1
MaxMetalReg == 1

\* Width of the x registers of the float-slice function, and the largest
\* point count it is called with
RegBits == 6
MaxSize == 12

\* Immediate of the enumerated RegImm and CopyImm ops
Imm == 1

\* Largest coordinate and variable value of the points a tape is evaluated at
MaxVal == 2

VARIABLES
    src,           \* self: the source VmData
    scratch,       \* tape: the donated VmData
    choices,       \* the choice slice of the current call
    bind,          \* workspace.bind
    count,         \* workspace.count
    alloc,         \* workspace.alloc
    pc,            \* position of the call
    i,             \* index of the op the main loop is at (1-based)
    choice_iter,   \* choices not yet consumed by choices.iter().rev()
    choice_count,  \* local choice_count
    ops_out,       \* local ops_out
    result,        \* the returned Result
    calls,         \* calls made so far
    parked,        \* the call of the other thread, while this one runs
    regtape,       \* a Tape used through its own methods: the tape, and the
                   \* limit its last new or reset was given
    heap,          \* heap allocations of the current call, and the capacities
                   \* of the buffers the calls reuse
    metal,         \* the Metal text of one instruction, and one run of it
    fslice         \* the registers of one call of the float-slice function

vars == <<src, scratch, choices, bind, count, alloc, pc, i, choice_iter,
          choice_count, ops_out, result, calls, parked, regtape, heap, metal,
          fslice>>

----------------------------------------------------------------------------
\* Ops

Op(k, out, a, b, imm) == [k |-> k, out |-> out, a |-> a, b |-> b, imm |-> imm]

LeafKinds == {"Input", "Var", "CopyImm"}
UnaryKinds == {"NegReg"}
ChoiceImmKinds == {"MinRegImm", "MaxRegImm"}
ChoiceRegKinds == {"MinRegReg", "MaxRegReg"}
BinRegKinds == {"AddRegReg"}
BinImmKinds == {"AddRegImm"}

has_choice(op) == op.k \in ChoiceImmKinds \cup ChoiceRegKinds

output(op) == op.out

\* The slots an op reads
Inputs(op) ==
    IF op.k \in LeafKinds THEN {}
    ELSE IF op.k \in ChoiceRegKinds \cup BinRegKinds THEN {op.a, op.b}
    ELSE {op.a}

----------------------------------------------------------------------------
\* The register tape (Tape of src/fidget/src/core/vm/tape.rs): the ops in
\* stored order, the slot count and the register limit. A register op has the
\* shape of an op, with registers in place of slots; Load(reg, mem) and
\* Store(mem, reg) exist only here.

\* #[derive(Default)] on Tape
TapeDefault == [tape |-> <<>>, slot_count |-> 0, reg_limit |-> 0]

TapeNew(reg_limit) == [tape |-> <<>>, slot_count |-> 1, reg_limit |-> reg_limit]

\* Tape::reset without tape.clear()
TapeReset_NoClear(t, reg_limit) ==
    [tape |-> t.tape, slot_count |-> 1, reg_limit |-> reg_limit]

TapeReset(t, reg_limit) ==
    [tape |-> <<>>, slot_count |-> 1, reg_limit |-> reg_limit]

\* A push that counts the memory slot of a Load or Store it has not seen
TapePush_CountsSlots(t, op) ==
    [t EXCEPT !.tape = Append(@, op),
              !.slot_count = IF op.k \in {"Load", "Store"} THEN @ + 1 ELSE @]

TapePush(t, op) == [t EXCEPT !.tape = Append(@, op)]

TapeLen(t) == Len(t.tape)

slot_count(t) == t.slot_count
reg_limit(t) == t.reg_limit

Load(reg, mem) == Op("Load", reg, mem, 0, 0)
Store(mem, reg) == Op("Store", mem, reg, 0, 0)

----------------------------------------------------------------------------
\* The register allocator. Its code is not among the sources; it is modelled
\* on section 4.2 of the specification: allocations per SSA slot, the occupant
\* of each register, an LRU order over the occupied registers, the free lists
\* of registers and of memory slots, and the register tape under construction.
\* The consumer of the root expects it in register 0 (scenario S1).

Unassigned == [t |-> "U", n |-> 0]
Register(r) == [t |-> "R", n |-> r]
Memory(m) == [t |-> "M", n |-> m]

Without(seq, x) == SelectSeq(seq, LAMBDA y : y # x)

AllocEmpty ==
    [allocations |-> <<>>, registers |-> <<>>, lru |-> <<>>,
     spare_registers |-> <<>>, spare_memory |-> <<>>, reg_count |-> 0,
     out |-> TapeNew(RegLimit)]

\* RegisterAllocator<N>::reset for the register limit n
AllocResetN(tape_len, tape, n) ==
    [allocations |-> [s \in 1..tape_len |-> IF s = 1 THEN Register(0) ELSE Unassigned],
     registers |-> [r \in 1..n |-> IF r = 1 /\ tape_len > 0 THEN 0 ELSE SENTINEL],
     lru |-> IF tape_len > 0 THEN <<0>> ELSE <<>>,
     spare_registers |-> <<>>,
     spare_memory |-> <<>>,
     reg_count |-> IF tape_len > 0 THEN 1 ELSE 0,
     out |-> TapeReset(tape, n)]

AllocReset(tape_len, tape) == AllocResetN(tape_len, tape, RegLimit)

\* A memory slot: a reclaimed one, or else the next integer
get_memory(al) ==
    IF al.spare_memory # <<>>
    THEN [al |-> [al EXCEPT !.spare_memory = SubSeq(@, 1, Len(@) - 1)],
          m |-> al.spare_memory[Len(al.spare_memory)]]
    ELSE [al |-> [al EXCEPT !.out.slot_count = @ + 1],
          m |-> al.out.slot_count - 1]

bind_register(al, slot, r) ==
    [al EXCEPT !.allocations[slot + 1] = Register(r),
               !.registers[r + 1] = slot,
               !.lru = Append(Without(@, r), r)]

\* A register taken as if there were always an unused one
get_register_NoEvict(al, protected) ==
    [al |-> [al EXCEPT !.reg_count = @ + 1,
                       !.registers = IF al.reg_count < Len(@) THEN @
                                     ELSE Append(@, SENTINEL)],
     r |-> al.reg_count]

\* A register: a released one, or else an unused one, or else the least
\* recently used one that is no operand of the current op, whose occupant
\* moves to a memory slot
get_register(al, protected) ==
    IF al.spare_registers # <<>>
    THEN [al |-> [al EXCEPT !.spare_registers = SubSeq(@, 1, Len(@) - 1)],
          r |-> al.spare_registers[Len(al.spare_registers)]]
    ELSE IF al.reg_count < al.out.reg_limit
    THEN [al |-> [al EXCEPT !.reg_count = @ + 1], r |-> al.reg_count]
    ELSE LET cand == SelectSeq(al.lru, LAMBDA x : x \notin protected)
             r == IF cand # <<>> THEN cand[1] ELSE al.lru[1]
             v == al.registers[r + 1]
             g == get_memory(al)
         IN  [al |-> [g.al EXCEPT !.allocations[v + 1] = Memory(g.m),
                                  !.registers[r + 1] = SENTINEL,
                                  !.lru = Without(@, r),
                                  !.out = TapePush(@, Store(g.m, r))],
              r |-> r]

\* The register of input slot s of the current op; post holds the ops that
\* go behind the op in the stored tape
InputReg(al, s, protected) ==
    LET a == al.allocations[s + 1] IN
    IF a.t = "R"
    THEN [al |-> [al EXCEPT !.lru = Append(Without(@, a.n), a.n)],
          r |-> a.n, post |-> <<>>]
    ELSE LET g == get_register(al, protected) IN
         IF a.t = "M"
         THEN [al |-> bind_register(
                          [g.al EXCEPT !.spare_memory = Append(@, a.n)], s, g.r),
               r |-> g.r, post |-> <<Load(g.r, a.n)>>]
         ELSE [al |-> bind_register(g.al, s, g.r), r |-> g.r, post |-> <<>>]

PushAll(t, ops) == [t EXCEPT !.tape = @ \o ops]

\* RegisterAllocator::op
AllocOp(al, op) ==
    LET o == al.allocations[op.out + 1] IN
    IF o.t = "U" THEN al
    ELSE
    LET inRegs == {al.allocations[s + 1].n :
                     s \in {u \in Inputs(op) : al.allocations[u + 1].t = "R"}}
        d == IF o.t = "R"
             THEN [al |-> [al EXCEPT !.registers[o.n + 1] = SENTINEL,
                                     !.lru = Without(@, o.n)],
                   r |-> o.n]
             ELSE LET g == get_register(al, inRegs)
                  IN  [al |-> [g.al EXCEPT !.out = TapePush(@, Store(o.n, g.r)),
                                           !.spare_memory = Append(@, o.n)],
                       r |-> g.r]
        al1 == [d.al EXCEPT !.allocations[op.out + 1] = Unassigned,
                            !.spare_registers = Append(@, d.r)]
    IN  IF op.k \in LeafKinds
        THEN [al1 EXCEPT !.out = TapePush(@, Op(op.k, d.r, op.a, 0, op.imm))]
        ELSE
        LET x == InputReg(al1, op.a, inRegs \cup {d.r}) IN
        IF op.k \in ChoiceRegKinds \cup BinRegKinds
        THEN LET y == InputReg(x.al, op.b, inRegs \cup {d.r, x.r})
             IN  [y.al EXCEPT !.out = PushAll(
                      TapePush(@, Op(op.k, d.r, x.r, y.r, 0)), x.post \o y.post)]
        ELSE [x.al EXCEPT !.out = PushAll(
                      TapePush(@, Op(op.k, d.r, x.r, 0, op.imm)), x.post)]

\* RegisterAllocator::finalize
AllocFinalize(al) == al.out

RECURSIVE AllocAll(_, _, _)
AllocAll(al, tape, n) ==
    IF n > Len(tape) THEN al ELSE AllocAll(AllocOp(al, tape[n]), tape, n + 1)

\* RegTape::new::<N>(&ssa) for the register limit n
RegTapeNewN(tape, n) ==
    AllocFinalize(AllocAll(AllocResetN(Len(tape), TapeNew(n), n), tape, 1))

\* RegTape::new::<N>(&ssa)
RegTapeNew(tape) == RegTapeNewN(tape, RegLimit)

----------------------------------------------------------------------------
\* VmData and VmWorkspace

\* The one variable map of the enumerated tapes
Vars == {<<"a", 0>>}

VmData(tape, cc, vs, asm) ==
    [ssa |-> [tape |-> tape, choice_count |-> cc, vars |-> vs], asm |-> asm]

\* SsaTape::reset without clearing the ops
SsaTapeReset_NoClear(ssa) == [tape |-> ssa.tape, choice_count |-> 0, vars |-> {}]

\* SsaTape::reset: the donated SSA tape is cleared, its storage is kept
SsaTapeReset(ssa) == [tape |-> <<>>, choice_count |-> 0, vars |-> {}]

\* VmData::default()
VmDataDefault == VmData(<<>>, 0, {}, TapeDefault)

\* VmData::new: the SSA tape of the builder and its register allocation
VmDataNew(tape) ==
    VmData(tape, Cardinality({n \in 1..Len(tape) : has_choice(tape[n])}), Vars,
           RegTapeNew(tape))

len(data) == TapeLen(data.asm)

Reverse(seq) == [n \in 1..Len(seq) |-> seq[Len(seq) + 1 - n]]

\* iter_asm without rev()
iter_asm_Stored(data) == data.asm.tape

\* VmData::iter_asm: the ops in the order the iterator yields them
iter_asm(data) == Reverse(data.asm.tape)

choice_count_of(data) == data.ssa.choice_count

\* VmData::vars and VmData::var_count
vars_of(data) == data.ssa.vars

var_count(data) == Cardinality(data.ssa.vars)

\* VmWorkspace::active: the new name of slot s, or SENTINEL for None
active(b, s) == b[s + 1]

\* get_or_insert_active without self.count += 1
get_or_insert_active_NoIncrement(b, c, s) ==
    IF b[s + 1] = SENTINEL
    THEN [bind |-> [b EXCEPT ![s + 1] = c], count |-> c, name |-> c]
    ELSE [bind |-> b, count |-> c, name |-> b[s + 1]]

\* VmWorkspace::get_or_insert_active: the bind table and the counter after it,
\* and the name it returns
get_or_insert_active(b, c, s) ==
    IF b[s + 1] = SENTINEL
    THEN [bind |-> [b EXCEPT ![s + 1] = c], count |-> c + 1, name |-> c]
    ELSE [bind |-> b, count |-> c, name |-> b[s + 1]]

\* VmWorkspace::set_active
set_active(b, s, new) == [b EXCEPT ![s + 1] = new]

\* VmWorkspace::reset on bind without self.bind.fill(u32::MAX)
reset_bind_NoFill(b, tape_len) ==
    [s \in 1..tape_len |-> IF s <= Len(b) THEN b[s] ELSE SENTINEL]

\* VmWorkspace::reset on bind: fill with the sentinel, then resize to tape_len
\* with the sentinel as the value of new entries
reset_bind(b, tape_len) ==
    LET filled == [s \in 1..Len(b) |-> SENTINEL]
    IN  [s \in 1..tape_len |-> IF s <= Len(filled) THEN filled[s] ELSE SENTINEL]

----------------------------------------------------------------------------
\* The source tapes: every well-formed tape of at most MaxOps ops in which the
\* op stored at index k writes slot k - 1 and reads slots written by ops
\* stored after it, and a few longer ones.

OpsAt(k, n) ==
    {Op("Input", k - 1, ax, 0, 0) : ax \in {0, 1}}
    \cup {Op("CopyImm", k - 1, 0, 0, Imm)}
    \cup {Op(kind, k - 1, a, 0, 0) : kind \in {"NegReg", "CopyReg"}, a \in k..(n - 1)}
    \cup {Op(kind, k - 1, a, 0, Imm) :
            kind \in {"MinRegImm", "AddRegImm"}, a \in k..(n - 1)}
    \cup {Op(kind, k - 1, a, b, 0) :
            kind \in {"MaxRegReg", "AddRegReg"}, a \in k..(n - 1), b \in k..(n - 1)}

RECURSIVE TapesFrom(_, _)
TapesFrom(k, n) ==
    IF k > n THEN {<<>>}
    ELSE {<<op>> \o rest : op \in OpsAt(k, n), rest \in TapesFrom(k + 1, n)}

\* Tapes that keep four values live at once: min((2 ? 3), Imm) with
\* 2 = (4 ? 5) and 3 = (6 ? 7) over four inputs
WideTapes ==
    {<<Op("MinRegImm", 0, 1, 0, Imm),
       Op(k0, 1, 2, 3, 0), Op(k1, 2, 4, 5, 0), Op(k2, 3, 6, 7, 0),
       Op("Input", 4, 0, 0, 0), Op("Input", 5, 1, 0, 0),
       Op("Var", 6, 0, 0, 0), Op("Input", 7, 0, 0, 0)>> :
        k0 \in {"AddRegReg", "MinRegReg"}, k1 \in {"AddRegReg", "MaxRegReg"},
        k2 \in {"AddRegReg", "MinRegReg"}}

\* A min or max whose operands are read by the root as well:
\* (x + m) with m = min/max(x, y) or min/max(x, Imm), and ((x + y) + m)
SharedTapes ==
    {<<Op("AddRegReg", 0, 2, 1, 0), Op(k, 1, 2, 3, 0),
       Op("Input", 2, 0, 0, 0), Op("Var", 3, 0, 0, 0)>> :
        k \in ChoiceRegKinds}
    \cup {<<Op("AddRegReg", 0, 2, 1, 0), Op(k, 1, 2, 0, Imm),
            Op("Input", 2, 0, 0, 0)>> : k \in ChoiceImmKinds}
    \cup {<<Op("AddRegReg", 0, 1, 2, 0), Op("AddRegReg", 1, 3, 4, 0),
            Op(k, 2, 3, 4, 0), Op("Input", 3, 0, 0, 0),
            Op("Input", 4, 1, 0, 0)>> : k \in ChoiceRegKinds}

\* x + y of scenario S1
S1Tape ==
    <<Op("AddRegReg", 0, 1, 2, 0), Op("Input", 2, 1, 0, 0), Op("Input", 1, 0, 0, 0)>>

\* min(x, 1.0) of scenarios S2 and S3 and min(x, y) of scenario S4
S2Tape == <<Op("MinRegImm", 0, 1, 0, Imm), Op("Input", 1, 0, 0, 0)>>
S4Tape ==
    <<Op("MinRegReg", 0, 1, 2, 0), Op("Input", 2, 1, 0, 0), Op("Input", 1, 0, 0, 0)>>

\* max(min(x, y), z) of scenario S5, with z evaluated after or before the min
S5Tapes ==
    {<<Op("MaxRegReg", 0, 1, 2, 0), Op("Input", 2, 2, 0, 0),
       Op("MinRegReg", 1, 3, 4, 0), Op("Input", 4, 1, 0, 0),
       Op("Input", 3, 0, 0, 0)>>,
     <<Op("MaxRegReg", 0, 1, 2, 0), Op("MinRegReg", 1, 3, 4, 0),
       Op("Input", 4, 1, 0, 0), Op("Input", 3, 0, 0, 0),
       Op("Input", 2, 2, 0, 0)>>}

\* The tapes of the scenarios, which a caller simplifies in turn
ScenarioTapes == {S2Tape, S4Tape} \cup S5Tapes

SourceTapes ==
    UNION {TapesFrom(1, n) : n \in 0..MaxOps}
    \cup WideTapes \cup SharedTapes \cup {S1Tape, S2Tape, S4Tape} \cup S5Tapes

Choice == {"Left", "Right", "Both", "Unknown"}

\* The choice slices a caller may pass for a source with cc choices: every
\* slice of the right length without Unknown, the slices with one Unknown
\* among choices that are all Left, all Right or all Both, and slices one
\* shorter and one longer
ChoiceSlices(cc) ==
    [1..cc -> {"Left", "Right", "Both"}]
    \cup {[n \in 1..cc |-> IF n = u THEN "Unknown" ELSE c] :
            u \in 1..cc, c \in {"Left", "Right", "Both"}}
    \cup [1..(cc + 1) -> {"Both"}]
    \cup (IF cc > 0 THEN [1..(cc - 1) -> {"Both"}] ELSE {})

----------------------------------------------------------------------------
\* The state machine

NoResult == [tag |-> "None", data |-> VmDataDefault, got |-> 0, expected |-> 0]
Ok(data) == [tag |-> "Ok", data |-> data, got |-> 0, expected |-> 0]
BadChoiceSlice(got, expected) ==
    [tag |-> "Err", data |-> VmDataDefault, got |-> got, expected |-> expected]
Panicked == [tag |-> "Panic", data |-> VmDataDefault, got |-> 0, expected |-> 0]

\* Heap accounting. A Vec that is pushed or resized past its capacity
\* allocates, and its capacity becomes the larger of twice the old one and
\* what is needed, and 4 at the least; clear, fill and truncation keep it.

GrowTo(cap, need) ==
    IF need <= cap THEN cap
    ELSE IF 2 * cap >= need /\ 2 * cap >= 4 THEN 2 * cap
    ELSE IF need >= 4 THEN need
    ELSE 4

\* k pushes, one at a time, to a Vec of len elements; h holds its capacity
\* and the allocations counted so far
RECURSIVE Pushes(_, _, _)
Pushes(h, length, k) ==
    IF k <= 0 THEN h
    ELSE Pushes([cap |-> GrowTo(h.cap, length + 1),
                 allocs |-> h.allocs + (IF length + 1 > h.cap THEN 1 ELSE 0)],
                length + 1, k - 1)

\* The capacity of a Vec that was built by n pushes
BuiltCap(n) == Pushes([cap |-> 0, allocs |-> 0], 0, n).cap

\* HashMap<String, u32>::clone: nothing for an empty map, else the table and
\* one String per key
CloneAllocs(vs) == IF vs = {} THEN 0 ELSE 1 + Cardinality(vs)

\* Before a first call: an empty workspace and an empty donated tape; again
\* tells that the call repeats the one before it, whose choices were last
NewHeap ==
    [allocs |-> 0, bind_cap |-> 0, ops_cap |-> 0, asm_cap |-> 0,
     src_ops_cap |-> BuiltCap(Len(src.ssa.tape)),
     src_asm_cap |-> BuiltCap(Len(src.asm.tape)),
     again |-> FALSE, last |-> <<>>]

\* The allocations of one step of a call: bind.resize in the workspace reset
\* (data.rs 343), the pushes to ops_out and to the register tape (257-258),
\* and self.ssa.vars.clone() on return (268)
Account ==
    heap' =
        IF pc = "idle"
        THEN IF pc' = "err"
             THEN [heap EXCEPT !.allocs = 0]
             ELSE [heap EXCEPT !.allocs = IF Len(bind') > heap.bind_cap THEN 1 ELSE 0,
                               !.bind_cap = GrowTo(@, Len(bind'))]
        ELSE IF pc' = "done"
        THEN [heap EXCEPT !.allocs = @ + CloneAllocs(result'.data.ssa.vars)]
        ELSE LET o == Pushes([cap |-> heap.ops_cap, allocs |-> 0], Len(ops_out),
                             Len(ops_out') - Len(ops_out))
                 a == Pushes([cap |-> heap.asm_cap, allocs |-> 0], Len(alloc.out.tape),
                             Len(alloc'.out.tape) - Len(alloc.out.tape))
             IN  [heap EXCEPT !.allocs = @ + o.allocs + a.allocs,
                              !.ops_cap = o.cap, !.asm_cap = a.cap]

\* Before any Metal text is generated, and before the float-slice function
\* is called
NoMetal ==
    [ins |-> [op |-> "None", out |-> 0, lhs |-> 0, rhs |-> 0, choice |-> 0],
     text |-> [kind |-> "none", mode |-> "Pixel", name |-> "None", out |-> 0,
               choice |-> 0, lhs |-> 0, rhs |-> 0, a |-> 0, b |-> 0],
     ran |-> FALSE, v0 |-> <<>>, ch0 |-> <<>>, v |-> <<>>, ch |-> <<>>]

NoSlice ==
    [at |-> "none", size |-> 0, x0 |-> 0, x1 |-> 0, x2 |-> 0, x4 |-> 0, x5 |-> 0,
     iters |-> 0, loaded |-> 0, stored |-> 0]

\* A thread that has made no call yet: VmWorkspace::default() (data.rs
\* 307-315), VmData::default() to donate, and whether its call and the running
\* thread's call have both been in their loops at once
NewThread ==
    [scratch |-> [held |-> TRUE, data |-> VmDataDefault],
     choices |-> <<>>, bind |-> <<>>, count |-> 0, alloc |-> AllocEmpty,
     pc |-> "idle", i |-> 0, choice_iter |-> 0, choice_count |-> 0,
     ops_out |-> <<>>, result |-> NoResult, calls |-> 0, heap |-> NewHeap,
     overlapped |-> FALSE]

Init ==
    /\ src \in {VmDataNew(t) : t \in SourceTapes} \cup {VmDataDefault}
    /\ parked = NewThread
    /\ regtape = [t |-> TapeNew(RegLimit), limit |-> RegLimit]
    /\ heap = NewHeap
    /\ metal = NoMetal
    /\ fslice = NoSlice
    /\ scratch = [held |-> TRUE, data |-> VmDataDefault]
    /\ choices = <<>>
    /\ bind = <<>>
    /\ count = 0
    /\ alloc = AllocEmpty
    /\ pc = "idle"
    /\ i = 0
    /\ choice_iter = 0
    /\ choice_count = 0
    /\ ops_out = <<>>
    /\ result = NoResult
    /\ calls = 0

\* The error built with its two fields in the other order
SimplifyBadChoices_Swapped(cs) ==
    /\ pc = "idle"
    /\ Len(cs) # choice_count_of(src)
    /\ choices' = cs
    /\ result' = BadChoiceSlice(choice_count_of(src), Len(cs))
    /\ scratch' = [held |-> FALSE, data |-> VmDataDefault]
    /\ pc' = "err"
    /\ calls' = calls + 1
    /\ UNCHANGED <<src, parked, regtape, metal, fslice, bind, count, alloc, i, choice_iter, choice_count, ops_out>>
    /\ Account

\* data.rs 109-114: the length check fails and the call returns the error;
\* the donated tape is dropped with the call
SimplifyBadChoices(cs) ==
    /\ pc = "idle"
    /\ Len(cs) # choice_count_of(src)
    /\ choices' = cs
    /\ result' = BadChoiceSlice(Len(cs), choice_count_of(src))
    /\ scratch' = [held |-> FALSE, data |-> VmDataDefault]
    /\ pc' = "err"
    /\ calls' = calls + 1
    /\ UNCHANGED <<src, parked, regtape, metal, fslice, bind, count, alloc, i, choice_iter, choice_count, ops_out>>
    /\ Account

\* The workspace reset without self.count = 0
SimplifyBegin_KeepCount(cs) ==
    /\ pc = "idle"
    /\ Len(cs) = choice_count_of(src)
    /\ choices' = cs
    /\ scratch' = [held |-> FALSE, data |-> VmDataDefault]
    /\ alloc' = AllocReset(Len(src.ssa.tape), scratch.data.asm)
    /\ choice_count' = 0
    /\ calls' = calls + 1
    /\ IF Len(src.ssa.tape) = 0 \/ output(src.ssa.tape[1]) # 0
       THEN /\ bind' = reset_bind(bind, Len(src.ssa.tape))
            /\ count' = count
            /\ pc' = "panic"
            /\ result' = Panicked
            /\ UNCHANGED <<i, choice_iter, ops_out>>
       ELSE /\ bind' = set_active(reset_bind(bind, Len(src.ssa.tape)),
                                  output(src.ssa.tape[1]), 0)
            /\ count' = count + 1
            /\ choice_iter' = Len(cs)
            /\ ops_out' = SsaTapeReset(scratch.data.ssa).tape
            /\ i' = 1
            /\ pc' = "loop"
            /\ result' = NoResult
    /\ UNCHANGED <<src, parked, regtape, metal, fslice, parked>>
    /\ Account

\* data.rs 115-130: reset of the donated tape and of the workspace, the root
\* is marked active. Reading tape[0] of an empty tape panics, as does a root
\* whose output is not slot 0.
SimplifyBegin(cs) ==
    /\ pc = "idle"
    /\ Len(cs) = choice_count_of(src)
    /\ choices' = cs
    /\ scratch' = [held |-> FALSE, data |-> VmDataDefault]
    /\ alloc' = AllocReset(Len(src.ssa.tape), scratch.data.asm)
    /\ choice_count' = 0
    /\ calls' = calls + 1
    /\ IF Len(src.ssa.tape) = 0 \/ output(src.ssa.tape[1]) # 0
       THEN /\ bind' = reset_bind(bind, Len(src.ssa.tape))
            /\ count' = 0
            /\ pc' = "panic"
            /\ result' = Panicked
            /\ UNCHANGED <<i, choice_iter, ops_out>>
       ELSE /\ bind' = set_active(reset_bind(bind, Len(src.ssa.tape)),
                                  output(src.ssa.tape[1]), 0)
            /\ count' = 0 + 1
            /\ choice_iter' = Len(cs)
            /\ ops_out' = SsaTapeReset(scratch.data.ssa).tape
            /\ i' = 1
            /\ pc' = "loop"
            /\ result' = NoResult
    /\ UNCHANGED <<src, parked, regtape, metal, fslice, parked>>
    /\ Account

InLoop == pc = "loop" /\ i <= Len(src.ssa.tape)

CurOp == src.ssa.tape[i]

\* workspace.alloc.op(op); ops_out.push(op) and on to the next op
Emit(op) ==
    /\ alloc' = AllocOp(alloc, op)
    /\ ops_out' = Append(ops_out, op)
    /\ i' = i + 1

\* continue: on to the next op with nothing emitted
Continue ==
    /\ i' = i + 1
    /\ UNCHANGED <<alloc, ops_out>>

\* choice_iter.next().unwrap() on an exhausted iterator, and panic!("oh no")
Panic ==
    /\ pc' = "panic"
    /\ result' = Panicked
    /\ UNCHANGED <<src, parked, regtape, metal, fslice, scratch, choices, bind, count, alloc, i, choice_iter,
                   choice_count, ops_out, calls>>

\* A dead min or max that leaves its choice in the iterator
StepInactive_KeepsChoice ==
    /\ InLoop
    /\ active(bind, output(CurOp)) = SENTINEL
    /\ Continue
    /\ UNCHANGED <<src, parked, regtape, metal, fslice, scratch, choices, bind, count, pc, choice_iter,
                   choice_count, result, calls>>
    /\ Account

\* data.rs 135-140: the output of the op is not active
StepInactive ==
    /\ InLoop
    /\ active(bind, output(CurOp)) = SENTINEL
    /\ IF has_choice(CurOp)
       THEN IF choice_iter = 0
            THEN Panic
            ELSE /\ choice_iter' = choice_iter - 1
                 /\ Continue
                 /\ UNCHANGED <<src, parked, regtape, metal, fslice, scratch, choices, bind, count, pc,
                                choice_count, result, calls>>
       ELSE /\ Continue
            /\ UNCHANGED <<src, parked, regtape, metal, fslice, scratch, choices, bind, count, pc, choice_iter,
                           choice_count, result, calls>>
    /\ Account

IsActive == InLoop /\ active(bind, output(CurOp)) # SENTINEL

new_index == active(bind, output(CurOp))

\* Input, Var, CopyImm emitted without *index = new_index
StepLeaf_KeepsIndex ==
    /\ IsActive
    /\ CurOp.k \in LeafKinds
    /\ Emit(CurOp)
    /\ UNCHANGED <<src, parked, regtape, metal, fslice, scratch, choices, bind, count, pc, choice_iter,
                   choice_count, result, calls>>
    /\ Account

\* data.rs 148-152: Input, Var, CopyImm
StepLeaf ==
    /\ IsActive
    /\ CurOp.k \in LeafKinds
    /\ Emit([CurOp EXCEPT !.out = new_index])
    /\ UNCHANGED <<src, parked, regtape, metal, fslice, scratch, choices, bind, count, pc, choice_iter,
                   choice_count, result, calls>>
    /\ Account

\* data.rs 153-168: the unary ops
StepUnary ==
    /\ IsActive
    /\ CurOp.k \in UnaryKinds
    /\ LET g == get_or_insert_active(bind, count, CurOp.a)
       IN  /\ bind' = g.bind
           /\ count' = g.count
           /\ Emit([CurOp EXCEPT !.out = new_index, !.a = g.name])
    /\ UNCHANGED <<src, parked, regtape, metal, fslice, scratch, choices, pc, choice_iter, choice_count,
                   result, calls>>
    /\ Account

\* CopyReg with an inactive source emitted as a copy instead of being elided
StepCopyReg_NoAlias ==
    /\ IsActive
    /\ CurOp.k = "CopyReg"
    /\ IF active(bind, CurOp.a) # SENTINEL
       THEN /\ Emit([CurOp EXCEPT !.out = new_index, !.a = active(bind, CurOp.a)])
            /\ UNCHANGED bind
       ELSE LET g == get_or_insert_active(bind, count, CurOp.a)
            IN  /\ bind' = g.bind
                /\ Emit([CurOp EXCEPT !.out = new_index, !.a = g.name])
    /\ count' = IF active(bind, CurOp.a) # SENTINEL THEN count ELSE count + 1
    /\ UNCHANGED <<src, parked, regtape, metal, fslice, scratch, choices, pc, choice_iter,
                   choice_count, result, calls>>
    /\ Account


\* CopyReg with an inactive source that binds the source and stays at the op
StepCopyReg_Revisit ==
    /\ IsActive
    /\ CurOp.k = "CopyReg"
    /\ IF active(bind, CurOp.a) # SENTINEL
       THEN /\ Emit([CurOp EXCEPT !.out = new_index, !.a = active(bind, CurOp.a)])
            /\ UNCHANGED bind
       ELSE /\ bind' = set_active(bind, CurOp.a, new_index)
            /\ UNCHANGED <<alloc, ops_out, i>>
    /\ UNCHANGED <<src, parked, regtape, metal, fslice, scratch, choices, count, pc, choice_iter,
                   choice_count, result, calls>>
    /\ Account

\* data.rs 169-185: CopyReg is emitted if its source is active already;
\* if not, the source takes the name of the copy and nothing is emitted
StepCopyReg ==
    /\ IsActive
    /\ CurOp.k = "CopyReg"
    /\ IF active(bind, CurOp.a) # SENTINEL
       THEN /\ Emit([CurOp EXCEPT !.out = new_index, !.a = active(bind, CurOp.a)])
            /\ UNCHANGED bind
       ELSE /\ bind' = set_active(bind, CurOp.a, new_index)
            /\ Continue
    /\ UNCHANGED <<src, parked, regtape, metal, fslice, scratch, choices, count, pc, choice_iter,
                   choice_count, result, calls>>
    /\ Account

\* MinRegImm/MaxRegImm decided Both without choice_count += 1
StepMinMaxRegImm_BothNoCount ==
    /\ IsActive
    /\ CurOp.k \in ChoiceImmKinds
    /\ IF choice_iter = 0 \/ choices[choice_iter] = "Unknown"
       THEN Panic
       ELSE /\ choice_iter' = choice_iter - 1
            /\ CASE choices[choice_iter] = "Left" ->
                      /\ IF active(bind, CurOp.a) # SENTINEL
                         THEN /\ Emit(Op("CopyReg", new_index, active(bind, CurOp.a), 0, 0))
                              /\ UNCHANGED bind
                         ELSE /\ bind' = set_active(bind, CurOp.a, new_index)
                              /\ Continue
                      /\ UNCHANGED <<count, choice_count>>
                 [] choices[choice_iter] = "Right" ->
                      /\ Emit(Op("CopyImm", new_index, 0, 0, CurOp.imm))
                      /\ UNCHANGED <<bind, count, choice_count>>
                 [] choices[choice_iter] = "Both" ->
                      LET g == get_or_insert_active(bind, count, CurOp.a)
                      IN  /\ choice_count' = choice_count
                          /\ bind' = g.bind
                          /\ count' = g.count
                          /\ Emit([CurOp EXCEPT !.out = new_index, !.a = g.name])
            /\ UNCHANGED <<src, parked, regtape, metal, fslice, scratch, choices, pc, result, calls>>
    /\ Account


\* MinRegImm/MaxRegImm decided Right that also activates the register operand
StepMinMaxRegImm_RightActivates ==
    /\ IsActive
    /\ CurOp.k \in ChoiceImmKinds
    /\ IF choice_iter = 0 \/ choices[choice_iter] = "Unknown"
       THEN Panic
       ELSE /\ choice_iter' = choice_iter - 1
            /\ CASE choices[choice_iter] = "Left" ->
                      /\ IF active(bind, CurOp.a) # SENTINEL
                         THEN /\ Emit(Op("CopyReg", new_index, active(bind, CurOp.a), 0, 0))
                              /\ UNCHANGED bind
                         ELSE /\ bind' = set_active(bind, CurOp.a, new_index)
                              /\ Continue
                      /\ UNCHANGED <<count, choice_count>>
                 [] choices[choice_iter] = "Right" ->
                      LET g == get_or_insert_active(bind, count, CurOp.a)
                      IN  /\ bind' = g.bind
                          /\ count' = g.count
                          /\ Emit(Op("CopyImm", new_index, 0, 0, CurOp.imm))
                          /\ UNCHANGED choice_count
                 [] choices[choice_iter] = "Both" ->
                      LET g == get_or_insert_active(bind, count, CurOp.a)
                      IN  /\ choice_count' = choice_count + 1
                          /\ bind' = g.bind
                          /\ count' = g.count
                          /\ Emit([CurOp EXCEPT !.out = new_index, !.a = g.name])
            /\ UNCHANGED <<src, parked, regtape, metal, fslice, scratch, choices, pc, result, calls>>
    /\ Account


\* MinRegImm/MaxRegImm decided Left with an inactive operand emitted as a copy
\* of the operand instead of being elided
StepMinMaxRegImm_LeftNoAlias ==
    /\ IsActive
    /\ CurOp.k \in ChoiceImmKinds
    /\ IF choice_iter = 0 \/ choices[choice_iter] = "Unknown"
       THEN Panic
       ELSE /\ choice_iter' = choice_iter - 1
            /\ CASE choices[choice_iter] = "Left" ->
                      /\ IF active(bind, CurOp.a) # SENTINEL
                         THEN /\ Emit(Op("CopyReg", new_index, active(bind, CurOp.a), 0, 0))
                              /\ UNCHANGED bind
                         ELSE LET g == get_or_insert_active(bind, count, CurOp.a)
                              IN  /\ bind' = g.bind
                                  /\ Emit(Op("CopyReg", new_index, g.name, 0, 0))
                      /\ count' = IF active(bind, CurOp.a) # SENTINEL
                                   THEN count ELSE count + 1
                      /\ UNCHANGED choice_count
                 [] choices[choice_iter] = "Right" ->
                      /\ Emit(Op("CopyImm", new_index, 0, 0, CurOp.imm))
                      /\ UNCHANGED <<bind, count, choice_count>>
                 [] choices[choice_iter] = "Both" ->
                      LET g == get_or_insert_active(bind, count, CurOp.a)
                      IN  /\ choice_count' = choice_count + 1
                          /\ bind' = g.bind
                          /\ count' = g.count
                          /\ Emit([CurOp EXCEPT !.out = new_index, !.a = g.name])
            /\ UNCHANGED <<src, parked, regtape, metal, fslice, scratch, choices, pc, result, calls>>
    /\ Account


\* data.rs 186-208: MinRegImm, MaxRegImm
StepMinMaxRegImm ==
    /\ IsActive
    /\ CurOp.k \in ChoiceImmKinds
    /\ IF choice_iter = 0 \/ choices[choice_iter] = "Unknown"
       THEN Panic
       ELSE /\ choice_iter' = choice_iter - 1
            /\ CASE choices[choice_iter] = "Left" ->
                      /\ IF active(bind, CurOp.a) # SENTINEL
                         THEN /\ Emit(Op("CopyReg", new_index, active(bind, CurOp.a), 0, 0))
                              /\ UNCHANGED bind
                         ELSE /\ bind' = set_active(bind, CurOp.a, new_index)
                              /\ Continue
                      /\ UNCHANGED <<count, choice_count>>
                 [] choices[choice_iter] = "Right" ->
                      /\ Emit(Op("CopyImm", new_index, 0, 0, CurOp.imm))
                      /\ UNCHANGED <<bind, count, choice_count>>
                 [] choices[choice_iter] = "Both" ->
                      LET g == get_or_insert_active(bind, count, CurOp.a)
                      IN  /\ choice_count' = choice_count + 1
                          /\ bind' = g.bind
                          /\ count' = g.count
                          /\ Emit([CurOp EXCEPT !.out = new_index, !.a = g.name])
            /\ UNCHANGED <<src, parked, regtape, metal, fslice, scratch, choices, pc, result, calls>>
    /\ Account

\* MinRegReg/MaxRegReg decided Right that selects lhs
StepMinMaxRegReg_RightTakesLhs ==
    /\ IsActive
    /\ CurOp.k \in ChoiceRegKinds
    /\ IF choice_iter = 0 \/ choices[choice_iter] = "Unknown"
       THEN Panic
       ELSE /\ choice_iter' = choice_iter - 1
            /\ CASE choices[choice_iter] = "Left" ->
                      /\ IF active(bind, CurOp.a) # SENTINEL
                         THEN /\ Emit(Op("CopyReg", new_index, active(bind, CurOp.a), 0, 0))
                              /\ UNCHANGED bind
                         ELSE /\ bind' = set_active(bind, CurOp.a, new_index)
                              /\ Continue
                      /\ UNCHANGED <<count, choice_count>>
                 [] choices[choice_iter] = "Right" ->
                      /\ IF active(bind, CurOp.a) # SENTINEL
                         THEN /\ Emit(Op("CopyReg", new_index, active(bind, CurOp.a), 0, 0))
                              /\ UNCHANGED bind
                         ELSE /\ bind' = set_active(bind, CurOp.a, new_index)
                              /\ Continue
                      /\ UNCHANGED <<count, choice_count>>
                 [] choices[choice_iter] = "Both" ->
                      LET l == get_or_insert_active(bind, count, CurOp.a)
                          r == get_or_insert_active(l.bind, l.count, CurOp.b)
                      IN  /\ choice_count' = choice_count + 1
                          /\ bind' = r.bind
                          /\ count' = r.count
                          /\ Emit([CurOp EXCEPT !.out = new_index, !.a = l.name,
                                                !.b = r.name])
            /\ UNCHANGED <<src, parked, regtape, metal, fslice, scratch, choices, pc, result, calls>>
    /\ Account


\* MinRegReg/MaxRegReg decided Both without choice_count += 1
StepMinMaxRegReg_BothNoCount ==
    /\ IsActive
    /\ CurOp.k \in ChoiceRegKinds
    /\ IF choice_iter = 0 \/ choices[choice_iter] = "Unknown"
       THEN Panic
       ELSE /\ choice_iter' = choice_iter - 1
            /\ CASE choices[choice_iter] = "Left" ->
                      /\ IF active(bind, CurOp.a) # SENTINEL
                         THEN /\ Emit(Op("CopyReg", new_index, active(bind, CurOp.a), 0, 0))
                              /\ UNCHANGED bind
                         ELSE /\ bind' = set_active(bind, CurOp.a, new_index)
                              /\ Continue
                      /\ UNCHANGED <<count, choice_count>>
                 [] choices[choice_iter] = "Right" ->
                      /\ IF active(bind, CurOp.b) # SENTINEL
                         THEN /\ Emit(Op("CopyReg", new_index, active(bind, CurOp.b), 0, 0))
                              /\ UNCHANGED bind
                         ELSE /\ bind' = set_active(bind, CurOp.b, new_index)
                              /\ Continue
                      /\ UNCHANGED <<count, choice_count>>
                 [] choices[choice_iter] = "Both" ->
                      LET l == get_or_insert_active(bind, count, CurOp.a)
                          r == get_or_insert_active(l.bind, l.count, CurOp.b)
                      IN  /\ choice_count' = choice_count
                          /\ bind' = r.bind
                          /\ count' = r.count
                          /\ Emit([CurOp EXCEPT !.out = new_index, !.a = l.name,
                                                !.b = r.name])
            /\ UNCHANGED <<src, parked, regtape, metal, fslice, scratch, choices, pc, result, calls>>
    /\ Account


\* data.rs 209-238: MinRegReg, MaxRegReg
StepMinMaxRegReg ==
    /\ IsActive
    /\ CurOp.k \in ChoiceRegKinds
    /\ IF choice_iter = 0 \/ choices[choice_iter] = "Unknown"
       THEN Panic
       ELSE /\ choice_iter' = choice_iter - 1
            /\ CASE choices[choice_iter] = "Left" ->
                      /\ IF active(bind, CurOp.a) # SENTINEL
                         THEN /\ Emit(Op("CopyReg", new_index, active(bind, CurOp.a), 0, 0))
                              /\ UNCHANGED bind
                         ELSE /\ bind' = set_active(bind, CurOp.a, new_index)
                              /\ Continue
                      /\ UNCHANGED <<count, choice_count>>
                 [] choices[choice_iter] = "Right" ->
                      /\ IF active(bind, CurOp.b) # SENTINEL
                         THEN /\ Emit(Op("CopyReg", new_index, active(bind, CurOp.b), 0, 0))
                              /\ UNCHANGED bind
                         ELSE /\ bind' = set_active(bind, CurOp.b, new_index)
                              /\ Continue
                      /\ UNCHANGED <<count, choice_count>>
                 [] choices[choice_iter] = "Both" ->
                      LET l == get_or_insert_active(bind, count, CurOp.a)
                          r == get_or_insert_active(l.bind, l.count, CurOp.b)
                      IN  /\ choice_count' = choice_count + 1
                          /\ bind' = r.bind
                          /\ count' = r.count
                          /\ Emit([CurOp EXCEPT !.out = new_index, !.a = l.name,
                                                !.b = r.name])
            /\ UNCHANGED <<src, parked, regtape, metal, fslice, scratch, choices, pc, result, calls>>
    /\ Account

\* data.rs 239-246: the binary ops on two registers without a choice
StepBinRegReg ==
    /\ IsActive
    /\ CurOp.k \in BinRegKinds
    /\ LET l == get_or_insert_active(bind, count, CurOp.a)
           r == get_or_insert_active(l.bind, l.count, CurOp.b)
       IN  /\ bind' = r.bind
           /\ count' = r.count
           /\ Emit([CurOp EXCEPT !.out = new_index, !.a = l.name, !.b = r.name])
    /\ UNCHANGED <<src, parked, regtape, metal, fslice, scratch, choices, pc, choice_iter, choice_count,
                   result, calls>>
    /\ Account

\* data.rs 247-255: the binary ops on a register and an immediate
StepBinRegImm ==
    /\ IsActive
    /\ CurOp.k \in BinImmKinds
    /\ LET g == get_or_insert_active(bind, count, CurOp.a)
       IN  /\ bind' = g.bind
           /\ count' = g.count
           /\ Emit([CurOp EXCEPT !.out = new_index, !.a = g.name])
    /\ UNCHANGED <<src, parked, regtape, metal, fslice, scratch, choices, pc, choice_iter, choice_count,
                   result, calls>>
    /\ Account

\* The new VmData with the variables that its ops still read
Finish_PrunedVars ==
    /\ pc = "loop"
    /\ i > Len(src.ssa.tape)
    /\ IF count # Len(ops_out)
       THEN /\ pc' = "panic"
            /\ result' = Panicked
       ELSE /\ pc' = "done"
            /\ result' = Ok(VmData(ops_out, choice_count,
                   {v \in src.ssa.vars :
                       \E n \in 1..Len(ops_out) :
                           ops_out[n].k = "Var" /\ ops_out[n].a = v[2]},
                   AllocFinalize(alloc)))
    /\ UNCHANGED <<src, parked, regtape, metal, fslice, scratch, choices, bind, count, alloc, i, choice_iter,
                   choice_count, ops_out, calls>>
    /\ Account

\* data.rs 261-271: the loop is over; the assertion on the counter, then the
\* new VmData with the source's variable map
Finish ==
    /\ pc = "loop"
    /\ i > Len(src.ssa.tape)
    /\ IF count # Len(ops_out)
       THEN /\ pc' = "panic"
            /\ result' = Panicked
       ELSE /\ pc' = "done"
            /\ result' = Ok(VmData(ops_out, choice_count, src.ssa.vars,
                                   AllocFinalize(alloc)))
    /\ UNCHANGED <<src, parked, regtape, metal, fslice, scratch, choices, bind, count, alloc, i, choice_iter,
                   choice_count, ops_out, calls>>
    /\ Account

\* The caller simplifies the returned tape in turn, donating the tape it no
\* longer needs and keeping its workspace
Recurse ==
    /\ pc = "done"
    /\ calls < MaxCalls
    /\ src' = result.data
    /\ scratch' = [held |-> TRUE, data |-> src]
    /\ pc' = "idle"
    /\ result' = NoResult
    /\ UNCHANGED <<choices, bind, count, alloc, i, choice_iter, choice_count,
                   ops_out, calls, parked, regtape, metal, fslice>>
    /\ heap' = [heap EXCEPT !.src_ops_cap = heap.ops_cap,
                            !.src_asm_cap = heap.asm_cap,
                            !.ops_cap = heap.src_ops_cap,
                            !.asm_cap = heap.src_asm_cap,
                            !.again = FALSE]

\* The caller simplifies another tape next, of another length, with the same
\* workspace, and donates the tape that was just returned
Reuse(t) ==
    /\ pc = "done"
    /\ calls < MaxCalls
    /\ src.ssa.tape \in ScenarioTapes
    /\ Len(t) # Len(src.ssa.tape)
    /\ src' = VmDataNew(t)
    /\ scratch' = [held |-> TRUE, data |-> result.data]
    /\ pc' = "idle"
    /\ result' = NoResult
    /\ UNCHANGED <<choices, bind, count, alloc, i, choice_iter, choice_count,
                   ops_out, calls, parked, regtape, metal, fslice>>
    /\ heap' = [heap EXCEPT !.src_ops_cap = BuiltCap(Len(t)),
                            !.src_asm_cap = BuiltCap(Len(RegTapeNew(t).tape)),
                            !.again = FALSE]

\* The caller simplifies the same source again, with the same workspace, and
\* donates the tape that was just returned
Repeat ==
    /\ pc = "done"
    /\ calls < MaxCalls
    /\ src.ssa.tape \in ScenarioTapes \cup SharedTapes
    /\ scratch' = [held |-> TRUE, data |-> result.data]
    /\ pc' = "idle"
    /\ result' = NoResult
    /\ heap' = [heap EXCEPT !.again = TRUE, !.last = choices]
    /\ UNCHANGED <<src, choices, bind, count, alloc, i, choice_iter, choice_count,
                   ops_out, calls, parked, regtape, metal, fslice>>

\* data.rs 340-345: after a failed call the caller resets the workspace
\* itself, for a tape of tape_len ops and with an empty register tape
WorkspaceReset(tape_len) ==
    /\ pc \in {"err", "panic"}
    /\ alloc' = AllocReset(tape_len, TapeNew(RegLimit))
    /\ bind' = reset_bind(bind, tape_len)
    /\ count' = 0
    /\ UNCHANGED <<src, parked, regtape, metal, fslice, scratch, choices, pc, i, choice_iter, choice_count,
                   ops_out, result, calls>>
    /\ heap' = [heap EXCEPT !.bind_cap = GrowTo(@, tape_len)]

Next ==
    \/ \E cs \in ChoiceSlices(choice_count_of(src)) : SimplifyBadChoices(cs)
    \/ \E cs \in ChoiceSlices(choice_count_of(src)) : SimplifyBegin(cs)
    \/ StepInactive
    \/ StepLeaf
    \/ StepUnary
    \/ StepCopyReg
    \/ StepMinMaxRegImm
    \/ StepMinMaxRegReg
    \/ StepBinRegReg
    \/ StepBinRegImm
    \/ Finish
    \/ Recurse
    \/ \E t \in ScenarioTapes : Reuse(t)
    \/ Repeat
    \/ \E tape_len \in 0..MaxReset : WorkspaceReset(tape_len)

Spec == Init /\ [][Next]_vars

\* A call that is in its loop takes its next step, to the next op or to its
\* return: simplify is synchronous and runs on once called, whereas nothing
\* makes a caller call. The steps that Next allows from the loop are the
\* steps of the loop body and the return.
Proceeds ==
    /\ pc = "loop"
    /\ pc' \in {"loop", "done", "panic"}
    /\ i' \in {i, i + 1}

SpecLive == Init /\ [][Next]_vars /\ WF_<<i, pc>>(Proceeds)

----------------------------------------------------------------------------
\* Two threads simplifying one source: each owns a workspace and a donated
\* tape, and the source is shared by reference (&self).

\* What a thread owns: its workspace, its donated tape, and the arguments,
\* locals and position of its call
Thread ==
    [scratch |-> scratch, choices |-> choices, bind |-> bind, count |-> count,
     alloc |-> alloc, pc |-> pc, i |-> i, choice_iter |-> choice_iter,
     choice_count |-> choice_count, ops_out |-> ops_out, result |-> result,
     calls |-> calls, heap |-> heap, overlapped |-> FALSE]

\* Both calls are in their loops
BothInLoop == pc = "loop" /\ parked.pc = "loop"

\* A switch in which the running thread takes the workspace of the parked
\* one, as two threads sharing one VmWorkspace would
Switch_SharedWorkspace ==
    /\ parked' = [Thread EXCEPT !.overlapped = parked.overlapped \/ BothInLoop]
    /\ scratch' = parked.scratch
    /\ choices' = parked.choices
    /\ bind' = bind
    /\ count' = count
    /\ alloc' = parked.alloc
    /\ pc' = parked.pc
    /\ i' = parked.i
    /\ choice_iter' = parked.choice_iter
    /\ choice_count' = parked.choice_count
    /\ ops_out' = parked.ops_out
    /\ result' = parked.result
    /\ calls' = parked.calls
    /\ heap' = parked.heap
    /\ UNCHANGED <<src, regtape, metal, fslice>>

\* The scheduler runs the other thread: between any two steps of a call the
\* running thread is parked with all it owns and the parked one runs on
\* with what it owns; the source is the same for both
Switch ==
    /\ parked' = [Thread EXCEPT !.overlapped = parked.overlapped \/ BothInLoop]
    /\ scratch' = parked.scratch
    /\ choices' = parked.choices
    /\ bind' = parked.bind
    /\ count' = parked.count
    /\ alloc' = parked.alloc
    /\ pc' = parked.pc
    /\ i' = parked.i
    /\ choice_iter' = parked.choice_iter
    /\ choice_count' = parked.choice_count
    /\ ops_out' = parked.ops_out
    /\ result' = parked.result
    /\ calls' = parked.calls
    /\ heap' = parked.heap
    /\ UNCHANGED <<src, regtape, metal, fslice>>

\* The sources two threads share
ParTapes ==
    UNION {TapesFrom(1, n) : n \in 1..MaxParOps} \cup ScenarioTapes \cup SharedTapes

InitPar ==
    /\ Init
    /\ src.ssa.tape \in ParTapes

\* Each thread makes one call
NextPar ==
    \/ \E cs \in ChoiceSlices(choice_count_of(src)) : SimplifyBadChoices(cs)
    \/ \E cs \in ChoiceSlices(choice_count_of(src)) : SimplifyBegin(cs)
    \/ StepInactive
    \/ StepLeaf
    \/ StepUnary
    \/ StepCopyReg
    \/ StepMinMaxRegImm
    \/ StepMinMaxRegReg
    \/ StepBinRegReg
    \/ StepBinRegImm
    \/ Finish
    \/ Switch

SpecPar == InitPar /\ [][NextPar]_vars

----------------------------------------------------------------------------
\* A Tape driven through new, reset and push alone (tape.rs 15-26, 47-49)

\* The ops pushed: Load and Store of a few registers and memory slots, and
\* two ops without a memory slot
TapeOps ==
    {Load(r, m) : r \in 0..1, m \in 0..MaxMem}
    \cup {Store(m, r) : r \in 0..1, m \in 0..MaxMem}
    \cup {Op("Input", 0, 0, 0, 0), Op("AddRegReg", 0, 0, 1, 0)}

TapeDoNew(n) ==
    /\ regtape' = [t |-> TapeNew(n), limit |-> n]
    /\ UNCHANGED <<src, scratch, choices, bind, count, alloc, pc, i, choice_iter,
                   choice_count, ops_out, result, calls, parked, metal, fslice>>
    /\ UNCHANGED heap

TapeDoReset(n) ==
    /\ regtape' = [t |-> TapeReset(regtape.t, n), limit |-> n]
    /\ UNCHANGED <<src, scratch, choices, bind, count, alloc, pc, i, choice_iter,
                   choice_count, ops_out, result, calls, parked, metal, fslice>>
    /\ UNCHANGED heap

TapeDoPush(op) ==
    /\ TapeLen(regtape.t) < MaxTapeLen
    /\ regtape' = [regtape EXCEPT !.t = TapePush(@, op)]
    /\ UNCHANGED <<src, scratch, choices, bind, count, alloc, pc, i, choice_iter,
                   choice_count, ops_out, result, calls, parked, metal, fslice>>
    /\ UNCHANGED heap

InitTape ==
    /\ Init
    /\ src = VmDataDefault

NextTape ==
    \/ \E n \in 0..RegLimit : TapeDoNew(n)
    \/ \E n \in 0..RegLimit : TapeDoReset(n)
    \/ \E op \in TapeOps : TapeDoPush(op)

SpecTape == InitTape /\ [][NextTape]_vars

----------------------------------------------------------------------------
\* Evaluation of an SSA tape at a point, in evaluation order (last stored op
\* first). The evaluators are not among the sources; the ops mean what their
\* names say.

Points == [x : 0..MaxVal, y : 0..MaxVal, z : {0, MaxVal}, v : {0, MaxVal}]

\* The points that differ in what the tape reads: a coordinate that no Input
\* of the tape reads, and the variable if no Var reads it, is 0
PointsOf(tape) ==
    LET reads(k, a) == \E n \in 1..Len(tape) : tape[n].k = k /\ tape[n].a = a
    IN  {p \in Points :
            /\ reads("Input", 0) \/ p.x = 0
            /\ reads("Input", 1) \/ p.y = 0
            /\ reads("Input", 2) \/ p.z = 0
            /\ reads("Var", 0) \/ p.v = 0}

Min2(a, b) == IF a <= b THEN a ELSE b
Max2(a, b) == IF a >= b THEN a ELSE b

OpValue(op, vals, p) ==
    CASE op.k = "Input" -> (IF op.a = 0 THEN p.x ELSE IF op.a = 1 THEN p.y ELSE p.z)
      [] op.k = "Var" -> p.v
      [] op.k = "CopyImm" -> op.imm
      [] op.k = "NegReg" -> 0 - vals[op.a]
      [] op.k = "CopyReg" -> vals[op.a]
      [] op.k = "MinRegImm" -> Min2(vals[op.a], op.imm)
      [] op.k = "MaxRegImm" -> Max2(vals[op.a], op.imm)
      [] op.k = "MinRegReg" -> Min2(vals[op.a], vals[op.b])
      [] op.k = "MaxRegReg" -> Max2(vals[op.a], vals[op.b])
      [] op.k = "AddRegReg" -> vals[op.a] + vals[op.b]
      [] op.k = "AddRegImm" -> vals[op.a] + op.imm

\* The values of the slots written by the ops stored at n and after
RECURSIVE SlotValues(_, _, _)
SlotValues(tape, n, p) ==
    IF n > Len(tape) THEN <<>>
    ELSE LET vals == SlotValues(tape, n + 1, p)
         IN  (tape[n].out :> OpValue(tape[n], vals, p)) @@ vals

evaluate(tape, p) == SlotValues(tape, 1, p)[tape[1].out]

\* Position in the choice slice of the choice-bearing op stored at n: choices
\* are recorded in evaluation order
ChoiceIndex(tape, n) == Cardinality({m \in n..Len(tape) : has_choice(tape[m])})

\* The choice slice cs is valid where the slots of the tape have the values
\* vals: Left only where the result is the lhs, Right only where it is the
\* rhs or the immediate, never Unknown
ValidFor(tape, cs, vals) ==
    \A n \in 1..Len(tape) :
        has_choice(tape[n]) =>
            LET op == tape[n]
                c == cs[ChoiceIndex(tape, n)]
                rhs == IF op.k \in ChoiceImmKinds THEN op.imm ELSE vals[op.b]
            IN  /\ c # "Unknown"
                /\ c = "Left" => vals[op.out] = vals[op.a]
                /\ c = "Right" => vals[op.out] = rhs

\* The choice slice cs is valid for the tape at point p
ValidAt(tape, cs, p) == ValidFor(tape, cs, SlotValues(tape, 1, p))

Returned == pc = "done"

\* C1: semantic equivalence. When simplify has returned a tape, that tape and
\* the source evaluate to the same value at every point at which the choice
\* slice is valid.
C1_SemanticEquivalence ==
    Returned =>
        \A p \in PointsOf(src.ssa.tape) :
            LET vals == SlotValues(src.ssa.tape, 1, p) IN
            ValidFor(src.ssa.tape, choices, vals) =>
                evaluate(result.data.ssa.tape, p) = vals[src.ssa.tape[1].out]

\* A call has returned a shorter tape for a slice with a Left or Right that is
\* valid at some point but not at every point
C1_Witness ==
    /\ Returned
    /\ \E n \in 1..Len(choices) : choices[n] \in {"Left", "Right"}
    /\ \E p \in Points : ValidAt(src.ssa.tape, choices, p)
    /\ \E p \in Points : ~ValidAt(src.ssa.tape, choices, p)
    /\ Len(result.data.ssa.tape) < Len(src.ssa.tape)

\* C2: a choice slice of the wrong length. The call returns
\* Err(BadChoiceSlice(choices.len(), choice_count())) and leaves the bind
\* table, the counter, the allocator and the source as they were.
C2_BadChoiceSlice ==
    [][(pc = "idle" /\ pc' # "idle" /\ Len(choices') # choice_count_of(src)) =>
          /\ pc' = "err"
          /\ result' = BadChoiceSlice(Len(choices'), choice_count_of(src))
          /\ bind' = bind /\ count' = count /\ alloc' = alloc /\ src' = src]_vars

\* The second call of a run fails on the length, with a workspace that the
\* first call has used
C2_Witness ==
    /\ pc = "err"
    /\ calls = 2
    /\ result.tag = "Err" /\ result.expected > 0 /\ result.got # result.expected
    /\ Len(bind) > 0 /\ count > 0 /\ TapeLen(alloc.out) > 0

OutputSlots(tape) == {tape[n].out : n \in 1..Len(tape)}

\* C3: denseness and single assignment. When the loop is over the counter
\* equals the number of emitted ops; the emitted ops write pairwise distinct
\* slots, exactly 0 .. n-1, and the first stored op (the root) writes slot 0.
C3_Dense ==
    /\ (pc = "loop" /\ i > Len(src.ssa.tape)) => count = Len(ops_out)
    /\ Returned =>
          LET t == result.data.ssa.tape
              n == Len(t)
          IN  /\ OutputSlots(t) = 0..(n - 1)
              /\ \A j, k \in 1..n : j # k => t[j].out # t[k].out
              /\ t[1].out = 0
              /\ n = count

\* A returned tape of three or more ops, shorter than its source, whose slots
\* are not in stored order
C3_Witness ==
    /\ Returned
    /\ Len(result.data.ssa.tape) >= 3
    /\ Len(result.data.ssa.tape) < Len(src.ssa.tape)
    /\ \E n \in 1..Len(result.data.ssa.tape) : result.data.ssa.tape[n].out # n - 1

ChoiceOps(tape) == {n \in 1..Len(tape) : has_choice(tape[n])}

\* C4: choice-count consistency. The choice_count of the returned VmData is
\* the number of min/max ops of its SSA tape.
C4_ChoiceCount ==
    Returned =>
        choice_count_of(result.data) = Cardinality(ChoiceOps(result.data.ssa.tape))

\* Some min/max ops were kept and some were decided
C4_Witness ==
    /\ Returned
    /\ choice_count_of(result.data) >= 1
    /\ choice_count_of(result.data) < choice_count_of(src)
    /\ \E n \in 1..Len(result.data.ssa.tape) :
          result.data.ssa.tape[n].k \in {"CopyReg", "CopyImm"}

HasSpill(asm) == \E n \in 1..Len(asm.tape) : asm.tape[n].k \in {"Load", "Store"}

----------------------------------------------------------------------------
\* Reachability in the source under a choice slice, from the meaning of the
\* choices alone: the root is live; a live op makes live the operands its
\* choice keeps (all of them for Both and for an op without a choice).

KeptInputs(tape, cs, n) ==
    LET op == tape[n] IN
    IF ~has_choice(op) THEN Inputs(op)
    ELSE LET c == cs[ChoiceIndex(tape, n)] IN
         IF c = "Left" THEN {op.a}
         ELSE IF c = "Right" THEN (IF op.k \in ChoiceRegKinds THEN {op.b} ELSE {})
         ELSE Inputs(op)

\* The slots that are live when the op stored at n is reached
RECURSIVE LiveBefore(_, _, _)
LiveBefore(tape, cs, n) ==
    IF n = 1 THEN {tape[1].out}
    ELSE LET before == LiveBefore(tape, cs, n - 1)
         IN  IF tape[n - 1].out \in before
             THEN before \cup KeptInputs(tape, cs, n - 1)
             ELSE before

LiveAt(tape, cs, n) == tape[n].out \in LiveBefore(tape, cs, n)

\* The live min/max ops decided Left or Right
Decided(tape, cs) ==
    {n \in ChoiceOps(tape) :
        LiveAt(tape, cs, n) /\ cs[ChoiceIndex(tape, n)] \in {"Left", "Right"}}

\* Those among them that select a register operand no earlier live op reads
DecidedFresh(tape, cs) ==
    {n \in Decided(tape, cs) :
        /\ KeptInputs(tape, cs, n) # {}
        /\ KeptInputs(tape, cs, n) \cap LiveBefore(tape, cs, n) = {}}

AllBoth(cs) == \A n \in 1..Len(cs) : cs[n] = "Both"

\* No op of the tape is dead: what the builder and simplify produce
NoDeadOps(tape) ==
    \A n \in 1..Len(tape) :
        LiveAt(tape, [m \in 1..Cardinality(ChoiceOps(tape)) |-> "Both"], n)

\* C7: idempotence under all-Both. For a source without dead ops, simplify
\* with every choice Both returns a tape with the choice_count of the source
\* that evaluates like the source at every point; min(x, y) with [Both] keeps
\* MinRegReg over its two Inputs and choice_count 1.
C7_AllBoth ==
    (Returned /\ AllBoth(choices) /\ NoDeadOps(src.ssa.tape)) =>
        /\ choice_count_of(result.data) = choice_count_of(src)
        /\ \A p \in PointsOf(src.ssa.tape) :
              evaluate(result.data.ssa.tape, p) = evaluate(src.ssa.tape, p)
        /\ src.ssa.tape = S4Tape =>
              /\ result.data.ssa.tape =
                    <<Op("MinRegReg", 0, 1, 2, 0), Op("Input", 2, 1, 0, 0),
                      Op("Input", 1, 0, 0, 0)>>
              /\ choice_count_of(result.data) = 1

\* A tape that simplify returned, with a min/max and a CopyReg in it, is
\* simplified again with every choice Both
C7_Witness ==
    /\ Returned
    /\ calls = 2
    /\ choices # <<>>
    /\ AllBoth(choices)
    /\ \E n \in 1..Len(src.ssa.tape) : src.ssa.tape[n].k = "CopyReg"

\* One producer under a chain of CopyReg ops, the last copy being the root
IsCopyChain(tape) ==
    /\ Len(tape) >= 2
    /\ \A n \in 1..(Len(tape) - 1) :
          tape[n].k = "CopyReg" /\ tape[n].a = tape[n + 1].out
    /\ tape[Len(tape)].k \in LeafKinds
    /\ tape[1].out = 0

\* C8: copy-chain collapse. A chain of CopyReg ops over one producer is
\* returned as the producer alone, writing slot 0. In the loop, an active
\* CopyReg with an inactive source emits nothing and binds the source to its
\* own new name; with an active source it is emitted under the new names.
C8_CopyChain ==
    /\ [](Returned /\ IsCopyChain(src.ssa.tape) =>
            result.data.ssa.tape =
                <<[src.ssa.tape[Len(src.ssa.tape)] EXCEPT !.out = 0]>>)
    /\ [][(IsActive /\ CurOp.k = "CopyReg") =>
            IF active(bind, CurOp.a) = SENTINEL
            THEN /\ ops_out' = ops_out
                 /\ bind' = [bind EXCEPT ![CurOp.a + 1] = new_index]
                 /\ count' = count
            ELSE /\ ops_out' = Append(ops_out,
                        Op("CopyReg", new_index, active(bind, CurOp.a), 0, 0))
                 /\ bind' = bind
                 /\ count' = count]_vars

\* A chain of two copies has been collapsed
C8_Witness ==
    /\ Returned
    /\ IsCopyChain(src.ssa.tape)
    /\ Len(src.ssa.tape) = 3
    /\ Len(result.data.ssa.tape) = 1

\* The choice the op at i is about to consume
CurChoice == choices[choice_iter]

\* C9: register-side selection. An active MinRegImm/MaxRegImm decided Left
\* and an active MinRegReg/MaxRegReg decided Left (lhs) or Right (rhs) emit
\* CopyReg(new_i, new_operand) if the operand is active, and otherwise emit
\* nothing and bind the operand to new_i; nothing else is bound. min(x, 1.0)
\* with [Left] is returned as the single op Input into slot 0 and register 0,
\* with choice_count 0.
C9_RegisterSide ==
    /\ [](Returned /\ src.ssa.tape = S2Tape /\ choices = <<"Left">> =>
            /\ result.data.ssa.tape = <<Op("Input", 0, 0, 0, 0)>>
            /\ result.data.asm.tape = <<Op("Input", 0, 0, 0, 0)>>
            /\ len(result.data) = 1
            /\ choice_count_of(result.data) = 0)
    /\ [][(/\ IsActive
           /\ has_choice(CurOp)
           /\ choice_iter > 0
           /\ \/ CurChoice = "Left"
              \/ CurChoice = "Right" /\ CurOp.k \in ChoiceRegKinds) =>
            LET s == IF CurChoice = "Left" THEN CurOp.a ELSE CurOp.b IN
            IF active(bind, s) # SENTINEL
            THEN /\ ops_out' = Append(ops_out,
                        Op("CopyReg", new_index, active(bind, s), 0, 0))
                 /\ bind' = bind
                 /\ count' = count
                 /\ choice_count' = choice_count
            ELSE /\ ops_out' = ops_out
                 /\ bind' = [bind EXCEPT ![s + 1] = new_index]
                 /\ count' = count
                 /\ choice_count' = choice_count]_vars

\* The loop has just emitted a CopyReg for a MinRegReg/MaxRegReg decided
\* Left whose lhs was active, and its rhs, another slot, is still inactive
C9_Witness ==
    /\ pc = "loop"
    /\ i > 1
    /\ src.ssa.tape[i - 1].k \in ChoiceRegKinds
    /\ src.ssa.tape[i - 1].a # src.ssa.tape[i - 1].b
    /\ choices[choice_iter + 1] = "Left"
    /\ ops_out # <<>>
    /\ ops_out[Len(ops_out)] =
          Op("CopyReg", active(bind, src.ssa.tape[i - 1].out),
             active(bind, src.ssa.tape[i - 1].a), 0, 0)
    /\ active(bind, src.ssa.tape[i - 1].b) = SENTINEL

\* C10: immediate-side selection. An active MinRegImm/MaxRegImm decided Right
\* emits CopyImm(new_i, imm) and binds nothing, so its register operand stays
\* inactive unless another live op reads it. min(x, 1.0) with [Right] is
\* returned as the single op CopyImm(0, 1.0), with choice_count 0.
C10_ImmediateSide ==
    /\ [](Returned /\ src.ssa.tape = S2Tape /\ choices = <<"Right">> =>
            /\ result.data.ssa.tape = <<Op("CopyImm", 0, 0, 0, Imm)>>
            /\ result.data.asm.tape = <<Op("CopyImm", 0, 0, 0, Imm)>>
            /\ len(result.data) = 1
            /\ choice_count_of(result.data) = 0)
    /\ [][(/\ IsActive
           /\ CurOp.k \in ChoiceImmKinds
           /\ choice_iter > 0
           /\ CurChoice = "Right") =>
            /\ ops_out' = Append(ops_out, Op("CopyImm", new_index, 0, 0, CurOp.imm))
            /\ bind' = bind
            /\ count' = count
            /\ choice_count' = choice_count]_vars

\* min(x, 1.0) with [Right] has been returned without the Input
C10_Witness ==
    /\ Returned
    /\ src.ssa.tape = S2Tape
    /\ choices = <<"Right">>
    /\ Len(result.data.ssa.tape) = 1

----------------------------------------------------------------------------
\* The choice slice of scenario S5 in evaluation order: the inner min, which
\* is evaluated first, is decided Left, the outer max Right
S5Choices == <<"Left", "Right">>

\* C11 as stated: max(min(x, y), z) with the max decided Right and the min
\* decided Left is returned as a tape of two ops that computes z, with
\* choice_count 0.
C11_S5TwoOps ==
    (Returned /\ src.ssa.tape \in S5Tapes /\ choices = S5Choices) =>
        /\ Len(result.data.ssa.tape) = 2
        /\ choice_count_of(result.data) = 0
        /\ \A p \in Points : evaluate(result.data.ssa.tape, p) = p.z

\* C11 amended: max(min(x, y), z) with the max decided Right and the min
\* decided Left is returned as the single op Input z, which is the root: it
\* writes slot 0 and register 0, len() is 1 and choice_count is 0, and the
\* tape evaluates to z at every point.
C11_S5OneOp ==
    (Returned /\ src.ssa.tape \in S5Tapes /\ choices = S5Choices) =>
        /\ result.data.ssa.tape = <<Op("Input", 0, 2, 0, 0)>>
        /\ result.data.asm.tape = <<Op("Input", 0, 2, 0, 0)>>
        /\ len(result.data) = 1
        /\ choice_count_of(result.data) = 0
        /\ \A p \in Points : evaluate(result.data.ssa.tape, p) = p.z

\* Scenario S5 has returned, for the tape in which the dead min is stored
\* behind the Input of z
C11_Witness ==
    /\ Returned
    /\ src.ssa.tape \in S5Tapes
    /\ src.ssa.tape[2].k = "Input"
    /\ choices = S5Choices
    /\ calls = 1

HasUnknown(cs) == \E n \in 1..Len(cs) : cs[n] = "Unknown"

\* C12 as stated: a choice slice of the right length with Unknown at any
\* position is rejected, so no call returns a VmData for such a slice. The
\* sources are those without dead ops, as the builder and simplify produce.
C12_UnknownRejected ==
    (Returned /\ NoDeadOps(src.ssa.tape)) => ~HasUnknown(choices)

\* C13 as stated: no call of simplify, on any source and any choice slice,
\* ends in a panic; every failure is an Err value.
C13_ErrorsReturned == pc # "panic" /\ result.tag # "Panic"

\* C14 as stated: a call that returns an error leaves the donated VmData with
\* its caller, as it was before the call.
C14_ScratchReturned ==
    [][(pc = "idle" /\ pc' = "err") => scratch' = scratch]_vars

AllSentinel(b) == \A s \in 1..Len(b) : b[s] = SENTINEL /\ active(b, s - 1) = SENTINEL

\* C16: VmWorkspace::reset. From the bind table of every reachable workspace,
\* reset for tape_len leaves a table of exactly tape_len entries, all of them
\* the sentinel, so that active is None for every slot; and a reset step
\* leaves such a table and a counter of 0.
C16_Reset ==
    /\ [](\A tape_len \in 0..MaxReset :
            /\ Len(reset_bind(bind, tape_len)) = tape_len
            /\ AllSentinel(reset_bind(bind, tape_len)))
    /\ [][(pc' = pc /\ pc \in {"err", "panic"}) =>
            /\ bind' = reset_bind(bind, Len(bind'))
            /\ Len(bind') \in 0..MaxReset
            /\ AllSentinel(bind')
            /\ count' = 0]_vars

\* A workspace that a call left in the middle of its loop, with names bound
\* and counted, has been reset for a tape of another length
C16_Witness ==
    /\ pc = "panic"
    /\ i > 1
    /\ Len(ops_out) >= 2
    /\ count = 0
    /\ Len(bind) \in 1..MaxReset
    /\ Len(bind) # Len(src.ssa.tape)
    /\ AllSentinel(bind)

\* C17: the variable map. The VmData that simplify returns has the variable
\* map of the source, and so the same var_count, also when no op of the
\* returned tape reads a variable.
C17_VarsKept ==
    Returned =>
        /\ vars_of(result.data) = vars_of(src)
        /\ var_count(result.data) = var_count(src)

\* The source reads a variable, the returned tape does not
C17_Witness ==
    /\ Returned
    /\ vars_of(src) # {}
    /\ \E n \in 1..Len(src.ssa.tape) : src.ssa.tape[n].k = "Var"
    /\ \A n \in 1..Len(result.data.ssa.tape) : result.data.ssa.tape[n].k # "Var"
    /\ var_count(result.data) = 1

----------------------------------------------------------------------------
\* VmData::simplify as a function of the source and the choice slice alone:
\* the call made with a workspace and a donated VmData that hold nothing
\* (VmWorkspace::default(), VmData::default()), run from its first line to
\* its return without another call in between.

FreshLoop(tape, cs) ==
    [bind |-> set_active(reset_bind(<<>>, Len(tape)), output(tape[1]), 0),
     count |-> 0 + 1,
     choice_iter |-> Len(cs),
     choice_count |-> 0,
     ops_out |-> SsaTapeReset(VmDataDefault.ssa).tape,
     ok |-> TRUE]

FreshPush(st, op) == [st EXCEPT !.ops_out = Append(@, op)]

\* One pass of the loop body (data.rs 132-259) for op
FreshStep(st, op, cs) ==
    IF ~st.ok THEN st
    ELSE IF active(st.bind, output(op)) = SENTINEL
    THEN IF ~has_choice(op) THEN st
         ELSE IF st.choice_iter = 0 THEN [st EXCEPT !.ok = FALSE]
         ELSE [st EXCEPT !.choice_iter = @ - 1]
    ELSE
    LET new == active(st.bind, output(op))
        l == get_or_insert_active(st.bind, st.count, op.a)
        r == get_or_insert_active(l.bind, l.count, op.b)
        one == FreshPush([st EXCEPT !.bind = l.bind, !.count = l.count],
                         [op EXCEPT !.out = new, !.a = l.name])
        two == FreshPush([st EXCEPT !.bind = r.bind, !.count = r.count],
                         [op EXCEPT !.out = new, !.a = l.name, !.b = r.name])
        select(s) ==
            IF active(st.bind, s) # SENTINEL
            THEN FreshPush([st EXCEPT !.choice_iter = @ - 1],
                           Op("CopyReg", new, active(st.bind, s), 0, 0))
            ELSE [st EXCEPT !.choice_iter = @ - 1, !.bind = set_active(@, s, new)]
    IN  CASE op.k \in LeafKinds -> FreshPush(st, [op EXCEPT !.out = new])
          [] op.k \in UnaryKinds \cup BinImmKinds -> one
          [] op.k \in BinRegKinds -> two
          [] op.k = "CopyReg" ->
                IF active(st.bind, op.a) # SENTINEL
                THEN FreshPush(st, [op EXCEPT !.out = new,
                                              !.a = active(st.bind, op.a)])
                ELSE [st EXCEPT !.bind = set_active(@, op.a, new)]
          [] has_choice(op) ->
                IF st.choice_iter = 0 THEN [st EXCEPT !.ok = FALSE]
                ELSE CASE cs[st.choice_iter] = "Left" -> select(op.a)
                       [] cs[st.choice_iter] = "Right" ->
                             IF op.k \in ChoiceImmKinds
                             THEN FreshPush([st EXCEPT !.choice_iter = @ - 1],
                                            Op("CopyImm", new, 0, 0, op.imm))
                             ELSE select(op.b)
                       [] cs[st.choice_iter] = "Both" ->
                             [(IF op.k \in ChoiceImmKinds THEN one ELSE two)
                                 EXCEPT !.choice_iter = @ - 1,
                                        !.choice_count = @ + 1]
                       [] cs[st.choice_iter] = "Unknown" -> [st EXCEPT !.ok = FALSE]

RECURSIVE FreshRun(_, _, _, _)
FreshRun(st, tape, cs, n) ==
    IF n > Len(tape) THEN st
    ELSE FreshRun(FreshStep(st, tape[n], cs), tape, cs, n + 1)

SimplifyFresh(data, cs) ==
    IF Len(cs) # choice_count_of(data)
    THEN BadChoiceSlice(Len(cs), choice_count_of(data))
    ELSE IF Len(data.ssa.tape) = 0 \/ output(data.ssa.tape[1]) # 0 THEN Panicked
    ELSE LET st == FreshRun(FreshLoop(data.ssa.tape, cs), data.ssa.tape, cs, 1)
         IN  IF ~st.ok \/ st.count # Len(st.ops_out) THEN Panicked
             ELSE Ok(VmData(st.ops_out, st.choice_count, data.ssa.vars,
                            AllocFinalize(AllocAll(
                                AllocReset(Len(data.ssa.tape), TapeNew(RegLimit)),
                                st.ops_out, 1))))

Ended == pc \in {"done", "err", "panic"}

\* C15: buffer reuse. Whatever the workspace was used for before and
\* whatever the donated VmData held, a call ends as the call on the same
\* source and choice slice with a fresh workspace and an empty donated VmData
\* ends: with the same error or panic, or with a VmData of the same SSA ops,
\* choice_count, variable map and register tape.
C15_BufferReuse == Ended => result = SimplifyFresh(src, choices)

\* The second call of a workspace has returned a tape with a min/max in it;
\* the donated VmData held the ops of the first source
C15_Witness ==
    /\ Returned
    /\ calls = 2
    /\ Len(result.data.ssa.tape) >= 2
    /\ Len(result.data.ssa.tape) < Len(src.ssa.tape)
    /\ choice_count_of(result.data) > 0

\* The op at i has an arm in the loop body
HasArm ==
    \/ active(bind, output(CurOp)) = SENTINEL
    \/ CurOp.k \in LeafKinds \cup UnaryKinds \cup {"CopyReg"} \cup ChoiceImmKinds
                    \cup ChoiceRegKinds \cup BinRegKinds \cup BinImmKinds

\* C19: termination in one pass. A call on a choice slice of the right length
\* without Unknown starts at the first stored op, every step of its loop moves
\* on to the next stored op, the step after the last op returns, and every
\* such call does return; no op stalls the loop for want of an arm.
C19_OnePass ==
    /\ [](InLoop => HasArm)
    /\ [][(pc = "idle" /\ pc' = "loop") => i' = 1]_vars
    /\ [][(InLoop /\ ~HasUnknown(choices)) => (pc' = "loop" /\ i' = i + 1)]_vars
    /\ [][(pc = "loop" /\ ~InLoop /\ ~HasUnknown(choices)) =>
            (pc' = "done" /\ i' = i /\ i = Len(src.ssa.tape) + 1)]_vars
    /\ [][(pc \in {"done", "err", "panic"}) => (i' = i)]_vars
    /\ (pc = "loop" /\ ~HasUnknown(choices)) ~> (pc = "done")

\* A call on a tape of eight ops has returned after its loop passed the last
\* op, having dropped some ops and decided some choices
C19_Witness ==
    /\ Returned
    /\ Len(src.ssa.tape) = 8
    /\ i = 9
    /\ Len(ops_out) \in 2..6
    /\ choice_iter = 0
    /\ Len(choices) >= 2

----------------------------------------------------------------------------
\* The registers and memory slots that an op of a register tape reads and
\* writes: Load(reg, mem) reads mem and writes reg, Store(mem, reg) reads reg
\* and writes mem, every other op writes its output register.
RegReads(op) ==
    IF op.k \in LeafKinds \cup {"Load"} THEN {}
    ELSE IF op.k \in ChoiceRegKinds \cup BinRegKinds THEN {op.a, op.b}
    ELSE {op.a}

RegWrites(op) == IF op.k = "Store" THEN {} ELSE {op.out}

\* Every register that an op of seq reads is written by an op before it
ProducersFirst(seq) ==
    \A j \in 1..Len(seq) :
        \A r \in RegReads(seq[j]) :
            \E k \in 1..(j - 1) : r \in RegWrites(seq[k])

\* The asm of scenario S1 in evaluation order
S1Asm ==
    <<Op("Input", 0, 0, 0, 0), Op("Input", 1, 1, 0, 0), Op("AddRegReg", 0, 0, 1, 0)>>

\* C20: iter_asm. For the source of every call and for every VmData that
\* simplify returns, iter_asm yields the len() ops of the register tape, the
\* n-th yielded being the n-th from the end of the stored tape, and every
\* register an op reads is written by an op yielded before it. x + y has
\* len() 3 and yields Input(0, 0), Input(1, 1), AddRegReg(0, 0, 1), with the
\* register limit of the model and with 255 registers.
C20_IterAsm ==
    /\ \A d \in {src} \cup (IF Returned THEN {result.data} ELSE {}) :
          /\ Len(iter_asm(d)) = len(d)
          /\ \A n \in 1..len(d) : iter_asm(d)[n] = d.asm.tape[len(d) + 1 - n]
          /\ ProducersFirst(iter_asm(d))
    /\ src.ssa.tape = S1Tape => (len(src) = 3 /\ iter_asm(src) = S1Asm)
    /\ LET data == VmData(S1Tape, 0, {}, RegTapeNewN(S1Tape, 255))
       IN  len(data) = 3 /\ iter_asm(data) = S1Asm /\ choice_count_of(data) = 0

\* A returned register tape with Load and Store ops in it, whose last yielded
\* op writes register 0
C20_Witness ==
    /\ Returned
    /\ HasSpill(result.data.asm)
    /\ len(result.data) >= 7
    /\ iter_asm(result.data)[len(result.data)].out = 0
    /\ iter_asm(result.data)[1].k \in LeafKinds


\* C18: parallel use. Two calls on one source, each with its own workspace
\* and donated tape, their steps interleaved in every way: whenever a call
\* has ended, running or parked, its result is the result of the same call
\* made alone with a fresh workspace and tape, and no step changes the source.
C18_ParallelSafe ==
    /\ [](Ended => result = SimplifyFresh(src, choices))
    /\ [](parked.pc \in {"done", "err", "panic"}
            => parked.result = SimplifyFresh(src, parked.choices))
    /\ [][src' = src]_vars

\* Both calls have returned, with different choices and different tapes, after
\* a switch between them while both were in their loops
C18_Witness ==
    /\ pc = "done" /\ parked.pc = "done"
    /\ parked.overlapped
    /\ choices # parked.choices
    /\ result.data # parked.result.data
    /\ Len(result.data.ssa.tape) < Len(src.ssa.tape)

\* The memory slots that the Load and Store ops of a tape name
MemSlots(t) ==
    {t.tape[n].a : n \in {k \in 1..Len(t.tape) : t.tape[k].k = "Load"}}
    \cup {t.tape[n].out : n \in {k \in 1..Len(t.tape) : t.tape[k].k = "Store"}}

\* C21 as stated: after new or reset and any pushes, slot_count() is the
\* number of distinct memory slots of the Load and Store ops in the tape, and
\* reg_limit() is the limit last passed
C21_SlotsUsed ==
    /\ slot_count(regtape.t) = Cardinality(MemSlots(regtape.t))
    /\ reg_limit(regtape.t) = regtape.limit

\* C21 as amended: after new or reset and any pushes, slot_count() is 1
\* whatever was pushed, and reg_limit() is the limit last passed
C21_SlotCountOne ==
    /\ slot_count(regtape.t) = 1
    /\ reg_limit(regtape.t) = regtape.limit

\* A tape reset to another limit than it was made with, then given a Load
\* and a Store of two different memory slots
C21_Witness ==
    /\ Cardinality(MemSlots(regtape.t)) = 2
    /\ TapeLen(regtape.t) = MaxTapeLen
    /\ regtape.limit # RegLimit

\* The registers a register op names, and the memory slots it names
RegsOf(op) == RegReads(op) \cup RegWrites(op)
MemOf(op) ==
    IF op.k = "Load" THEN {op.a} ELSE IF op.k = "Store" THEN {op.out} ELSE {}

\* A register tape that keeps to its limit
WithinLimit(t) ==
    \A n \in 1..Len(t.tape) :
        /\ \A r \in RegsOf(t.tape[n]) : r < reg_limit(t)
        /\ \A m \in MemOf(t.tape[n]) : m < slot_count(t)

\* The registers an allocator holds occupied
Occupied(al) == {r \in 1..Len(al.registers) : al.registers[r] # SENTINEL}

\* An allocator that keeps to the limit of the tape it builds
AllocWithinLimit(al) ==
    /\ WithinLimit(al.out)
    /\ Cardinality(Occupied(al)) <= reg_limit(al.out)
    /\ \A r \in Occupied(al) : r - 1 < reg_limit(al.out)
    /\ al.reg_count <= reg_limit(al.out)

\* C22: register-limit respect. The register tape of the source (built by
\* VmData::new or returned by an earlier simplify), of every returned VmData
\* and of the allocator after each op fed to it names only registers below
\* the limit and memory slots below slot_count(), and the allocator never
\* holds more registers occupied than the limit; so too after every op of the
\* allocation that VmData::new makes for the source tape.
C22_RegisterLimit ==
    /\ WithinLimit(src.asm)
    /\ Returned => (WithinLimit(result.data.asm) /\ reg_limit(result.data.asm) = RegLimit)
    /\ pc = "loop" => AllocWithinLimit(alloc)
    /\ (pc = "idle" /\ calls = 0) =>
          \A n \in 0..Len(src.ssa.tape) :
              AllocWithinLimit(AllocAll(
                  AllocReset(Len(src.ssa.tape), TapeNew(RegLimit)),
                  SubSeq(src.ssa.tape, 1, n), 1))

\* The allocator, in a call's loop, holds every register occupied and has
\* moved a value to memory
C22_Witness ==
    /\ pc = "loop"
    /\ Cardinality(Occupied(alloc)) = RegLimit
    /\ HasSpill(alloc.out)
    /\ slot_count(alloc.out) > 1

\* A call has returned that repeated the call before it: same source, same
\* choices, same workspace, the tape returned before donated
Repeated == pc = "done" /\ heap.again /\ choices = heap.last

\* C23: steady-state allocation freedom. A call that repeats the one before
\* it, on the same source with the same workspace and the returned tape as
\* scratch, makes no heap allocation, whatever the variable map of the source.
C23_NoAllocation == Repeated => heap.allocs = 0

\* The min/max ops of the source that the loop has not reached yet
ChoicesAhead == Cardinality({m \in i..Len(src.ssa.tape) : has_choice(src.ssa.tape[m])})

\* C24: choice pairing. Throughout the loop the entries left in the reversed
\* iterator are as many as the min/max ops not yet reached, so a min/max op,
\* active or dead, always finds an entry, nothing is left when the last op
\* has been processed, and the op that is j-th among the min/max ops in
\* evaluation order consumes choices[j] and no other op consumes anything; an
\* active one is kept as a choice exactly if choices[j] is Both and panics
\* exactly if it is Unknown.
C24_ChoicePairing ==
    /\ [](pc = "loop" => choice_iter = ChoicesAhead)
    /\ [](InLoop /\ has_choice(CurOp) => choice_iter > 0)
    /\ [](pc = "loop" /\ i > Len(src.ssa.tape) => choice_iter = 0)
    /\ [][(InLoop /\ has_choice(CurOp)) =>
            /\ choice_iter = ChoiceIndex(src.ssa.tape, i)
            /\ pc' = "loop" => choice_iter' = choice_iter - 1
            /\ IsActive =>
                  /\ (choices[ChoiceIndex(src.ssa.tape, i)] = "Unknown") <=> (pc' = "panic")
                  /\ (choices[ChoiceIndex(src.ssa.tape, i)] = "Both")
                        <=> (choice_count' = choice_count + 1)]_vars
    /\ [][(InLoop /\ ~has_choice(CurOp)) => choice_iter' = choice_iter]_vars

\* The loop is past an active min/max and past a dead one stored after it,
\* and the iterator is empty
C24_Witness ==
    /\ pc = "loop"
    /\ choice_iter = 0
    /\ Len(choices) >= 2
    /\ \E m \in 1..(i - 1) : \E d \in (m + 1)..(i - 1) :
          /\ has_choice(src.ssa.tape[m])
          /\ active(bind, src.ssa.tape[m].out) # SENTINEL
          /\ has_choice(src.ssa.tape[d])
          /\ active(bind, src.ssa.tape[d].out) = SENTINEL

\* A tape simplify can take: not empty, the first stored op writes slot 0,
\* and every slot an op reads is written by an op stored after it
WellFormed(tape) ==
    /\ Len(tape) > 0
    /\ tape[1].out = 0
    /\ \A n \in 1..Len(tape) :
          \A s \in Inputs(tape[n]) :
              \E m \in (n + 1)..Len(tape) : tape[m].out = s

\* C25: closure under recursion. From a well-formed source and a choice
\* slice of the right length without Unknown, the returned SSA tape is
\* well-formed again; a call on a well-formed source with such a slice passes
\* the assertion on the root, reads bind only at slots below its length, and
\* never panics, also when its source was returned by an earlier call.
C25_Closure ==
    /\ []((Returned /\ WellFormed(src.ssa.tape) /\ ~HasUnknown(choices))
            => WellFormed(result.data.ssa.tape))
    /\ []((WellFormed(src.ssa.tape) /\ ~HasUnknown(choices)) => pc # "panic")
    /\ []((InLoop /\ WellFormed(src.ssa.tape)) =>
            \A s \in Inputs(CurOp) \cup {output(CurOp)} : s < Len(bind))
    /\ [][(pc = "idle" /\ WellFormed(src.ssa.tape) /\ pc' # "idle" /\ pc' # "err")
            => pc' = "loop"]_vars
    /\ []((pc = "idle" /\ calls >= 1) => WellFormed(src.ssa.tape))

\* The second call of a run has returned: its source was returned by the
\* first call with min/max ops left in it, and the tape it returned is
\* shorter again and has two or more ops
C25_Witness ==
    /\ Returned
    /\ calls = 2
    /\ ~heap.again
    /\ src.ssa.tape \notin ScenarioTapes
    /\ choice_count_of(src) >= 1
    /\ Len(result.data.ssa.tape) >= 2
    /\ Len(result.data.ssa.tape) < Len(src.ssa.tape)

\* C26: no dead code survives. In the returned SSA tape every op but the
\* first is read by an op stored before it; and a source op whose output is
\* unbound when the loop reaches it emits nothing, feeds nothing to the
\* allocator and binds nothing.
C26_NoDeadCode ==
    /\ [](Returned =>
            LET t == result.data.ssa.tape IN
            \A n \in 2..Len(t) : \E m \in 1..(n - 1) : t[n].out \in Inputs(t[m]))
    /\ [][(InLoop /\ active(bind, output(CurOp)) = SENTINEL) =>
            /\ ops_out' = ops_out
            /\ alloc' = alloc
            /\ bind' = bind
            /\ count' = count
            /\ choice_count' = choice_count]_vars

\* A call has returned that passed a dead op with operands, after a min or
\* max decided Right, and kept two or more ops
C26_Witness ==
    /\ Returned
    /\ Len(result.data.ssa.tape) >= 2
    /\ \E n \in 1..Len(src.ssa.tape) :
          /\ ~LiveAt(src.ssa.tape, choices, n)
          /\ Inputs(src.ssa.tape[n]) # {}
    /\ \E n \in 1..Len(choices) : choices[n] = "Right"

\* The slice that decides every min/max op of data Both
BothSlice(data) == [n \in 1..choice_count_of(data) |-> "Both"]

\* C27: fixed point. Simplifying a returned VmData with every choice Both,
\* with a fresh workspace and tape, returns the same SSA tape op for op, with
\* the same choice_count.
C27_FixedPoint ==
    Returned =>
        LET again == SimplifyFresh(result.data, BothSlice(result.data))
        IN  /\ again.tag = "Ok"
            /\ again.data.ssa.tape = result.data.ssa.tape
            /\ choice_count_of(again.data) = choice_count_of(result.data)

\* A returned tape that is shorter than its source, numbered otherwise than
\* the source was, and still has a min or max in it
C27_Witness ==
    /\ Returned
    /\ choice_count_of(result.data) >= 1
    /\ Len(result.data.ssa.tape) < Len(src.ssa.tape)
    /\ \E n \in 1..Len(result.data.ssa.tape) :
          result.data.ssa.tape[n] # src.ssa.tape[n]

----------------------------------------------------------------------------
\* Metal text of one instruction (jitfive, metal.rs 117-212), and what the
\* text does when the shader runs it

\* #define RHS 1, #define LHS 2 (metal.rs 349-350); the choice arrays start
\* as 0b11 (metal.rs 717)
RHS == 1
LHS == 2
BOTH == 3

MetalRegs == 0..MaxMetalReg
MetalChoices == 0..1
MetalModes == {"Pixel", "Interval"}

\* The instructions: of the binary ones Add, and Min and Max
Instructions ==
    [op : {"Add", "Min", "Max"}, out : MetalRegs, lhs : MetalRegs,
     rhs : MetalRegs, choice : MetalChoices]

\* Intervals are float2: [0] is the lower end and [1] the upper
Lo(x) == x[1]
Hi(x) == x[2]
Intervals == {p \in (0..MaxVal) \X (0..MaxVal) : Lo(p) <= Hi(p)}

MetalValues(mode) == IF mode = "Pixel" THEN 0..MaxVal ELSE Intervals

\* Instruction::to_metal (metal.rs 117-212). The text is kept as what it
\* says: a call v{out} = {t}_{name}(v{a}, v{b}), or a switch on
\* choices[choice] with the cases LHS and RHS and a default, which in Pixel
\* mode is that call and in Interval mode compares v{a} and v{b}.
to_metal(ins, mode) ==
    IF ins.op \in {"Max", "Min"}
    THEN [kind |-> "switch", mode |-> mode, name |-> ins.op, out |-> ins.out,
          choice |-> ins.choice, lhs |-> ins.lhs, rhs |-> ins.rhs,
          a |-> ins.lhs,
          b |-> IF mode = "Interval" THEN ins.lhs ELSE ins.rhs]
    ELSE [kind |-> "call", mode |-> mode, name |-> ins.op, out |-> ins.out,
          choice |-> ins.choice, lhs |-> ins.lhs, rhs |-> ins.rhs,
          a |-> ins.lhs, b |-> ins.rhs]

\* f_add, f_min, f_max and i_add, i_min, i_max of the prelude (i_min and i_max
\* are fmin and fmax of float2, end by end: metal.rs 441-449)
MetalCall(mode, name, x, y) ==
    IF mode = "Pixel"
    THEN CASE name = "Add" -> x + y
           [] name = "Min" -> Min2(x, y)
           [] OTHER        -> Max2(x, y)
    ELSE CASE name = "Add" -> <<Lo(x) + Lo(y), Hi(x) + Hi(y)>>
           [] name = "Min" -> <<Min2(Lo(x), Lo(y)), Min2(Hi(x), Hi(y))>>
           [] OTHER        -> <<Max2(Lo(x), Lo(y)), Max2(Hi(x), Hi(y))>>

\* Running the text on registers v and choice array ch
MetalExec(text, v, ch) ==
    LET set(val, c) == [v |-> [v EXCEPT ![text.out] = val],
                        ch |-> [ch EXCEPT ![text.choice] = c]]
        keep == ch[text.choice]
        call == set(MetalCall(text.mode, text.name, v[text.a], v[text.b]), keep)
    IN  IF text.kind = "call" THEN call
        ELSE IF ch[text.choice] = LHS THEN set(v[text.lhs], keep)
        ELSE IF ch[text.choice] = RHS THEN set(v[text.rhs], keep)
        ELSE IF text.mode = "Pixel" THEN call
        ELSE IF text.name = "Max"
        THEN IF Lo(v[text.a]) > Hi(v[text.b]) THEN set(v[text.a], LHS)
             ELSE IF Lo(v[text.b]) > Hi(v[text.a]) THEN set(v[text.b], RHS)
             ELSE call
        ELSE IF Hi(v[text.a]) < Lo(v[text.b]) THEN set(v[text.a], LHS)
             ELSE IF Hi(v[text.b]) < Lo(v[text.a]) THEN set(v[text.b], RHS)
             ELSE call

callVars ==
    <<src, scratch, choices, bind, count, alloc, pc, i, choice_iter,
      choice_count, ops_out, result, calls, parked, regtape, heap>>

MetalGenerate(ins, mode) ==
    /\ metal = NoMetal
    /\ metal' = [metal EXCEPT !.ins = ins, !.text = to_metal(ins, mode)]
    /\ UNCHANGED <<callVars, fslice>>

MetalRun(mode, v, ch) ==
    /\ metal.text.kind # "none"
    /\ metal.text.mode = mode
    /\ ~metal.ran
    /\ LET after == MetalExec(metal.text, v, ch)
       IN  metal' = [metal EXCEPT !.ran = TRUE, !.v0 = v, !.ch0 = ch,
                                  !.v = after.v, !.ch = after.ch]
    /\ UNCHANGED <<callVars, fslice>>

InitMetal ==
    /\ Init
    /\ src = VmDataDefault

NextMetal ==
    \/ \E ins \in Instructions, mode \in MetalModes : MetalGenerate(ins, mode)
    \/ \E mode \in MetalModes :
          \E v \in [MetalRegs -> MetalValues(mode)],
             ch \in [MetalChoices -> {RHS, LHS, BOTH}] : MetalRun(mode, v, ch)

SpecMetal == InitMetal /\ [][NextMetal]_vars

\* C28: in Interval mode the text of a Min or Max with distinct lhs and rhs
\* registers, run where the choice is neither LHS nor RHS, compares v{lhs}
\* with v{rhs}: when one interval lies wholly on one side of the other it
\* writes LHS or RHS to choices[choice] and the winning operand to the output.
C28_IntervalMinMax ==
    (/\ metal.ran
     /\ metal.text.mode = "Interval"
     /\ metal.ins.op \in {"Min", "Max"}
     /\ metal.ins.lhs # metal.ins.rhs
     /\ metal.ch0[metal.ins.choice] = BOTH)
    => LET l == metal.v0[metal.ins.lhs]
           r == metal.v0[metal.ins.rhs]
           lhs_wins == IF metal.ins.op = "Max" THEN Lo(l) > Hi(r) ELSE Hi(l) < Lo(r)
           rhs_wins == IF metal.ins.op = "Max" THEN Lo(r) > Hi(l) ELSE Hi(r) < Lo(l)
       IN  /\ lhs_wins => /\ metal.ch[metal.ins.choice] = LHS
                          /\ metal.v[metal.ins.out] = l
           /\ rhs_wins => /\ metal.ch[metal.ins.choice] = RHS
                          /\ metal.v[metal.ins.out] = r



----------------------------------------------------------------------------
\* The loop of the aarch64 float-slice function (float_slice.rs 127-153 and
\* 306-313). x0, x1, x2 and x4 are kept as byte offsets from the starts of the
\* X, Y, Z and out arrays; the registers are RegBits wide.

SIMD_WIDTH == 4
Wrap == 2 ^ RegBits
MaxIters == (MaxSize \div SIMD_WIDTH) + 2

\* The call: x0..x2 and x4 point at the arrays, x5 holds size
SliceCall(size) ==
    /\ fslice.at = "none"
    /\ fslice' = [at |-> "L", size |-> size, x0 |-> 0, x1 |-> 0, x2 |-> 0,
                  x4 |-> 0, x5 |-> size, iters |-> 0, loaded |-> 0, stored |-> 0]
    /\ UNCHANGED <<callVars, metal>>

\* ->L: cmp x5, 0; b.eq ->E
LoopTest ==
    /\ fslice.at = "L"
    /\ fslice' = [fslice EXCEPT !.at = IF fslice.x5 = 0 THEN "E" ELSE "load"]
    /\ UNCHANGED <<callVars, metal>>

LoopLoad_SubOne ==
    /\ fslice.at = "load"
    /\ \/ /\ fslice.loaded + SIMD_WIDTH <= fslice.size \/ fslice.iters < MaxIters
          /\ fslice' = [fslice EXCEPT !.at = "body",
                                      !.x0 = (@ + 16) % Wrap,
                                      !.x1 = (@ + 16) % Wrap,
                                      !.x2 = (@ + 16) % Wrap,
                                      !.x5 = (@ + Wrap - 1) % Wrap,
                                      !.iters = @ + 1,
                                      !.loaded = @ + SIMD_WIDTH]
       \/ /\ fslice.loaded + SIMD_WIDTH > fslice.size
          /\ fslice' = [fslice EXCEPT !.at = "fault"]
    /\ UNCHANGED <<callVars, metal>>

\* ldr q0, [x0], #16; ldr q1, [x1], #16; ldr q2, [x2], #16; sub x5, x5, #4.
\* A load that reaches past the size floats of its array reads memory that
\* is not the caller's: it faults or it reads whatever is there.
LoopLoad ==
    /\ fslice.at = "load"
    /\ \/ /\ fslice.loaded + SIMD_WIDTH <= fslice.size \/ fslice.iters < MaxIters
          /\ fslice' = [fslice EXCEPT !.at = "body",
                                      !.x0 = (@ + 16) % Wrap,
                                      !.x1 = (@ + 16) % Wrap,
                                      !.x2 = (@ + 16) % Wrap,
                                      !.x5 = (@ + Wrap - 4) % Wrap,
                                      !.iters = @ + 1,
                                      !.loaded = @ + SIMD_WIDTH]
       \/ /\ fslice.loaded + SIMD_WIDTH > fslice.size
          /\ fslice' = [fslice EXCEPT !.at = "fault"]
    /\ UNCHANGED <<callVars, metal>>

\* The clauses of the tape, between init and finalize: they leave x0..x5 as
\* they are (function calls back them up in x20..x25)
TapeBody ==
    /\ fslice.at = "body"
    /\ fslice' = [fslice EXCEPT !.at = "store"]
    /\ UNCHANGED <<callVars, metal>>

\* mov v0.d[0], V(out).d[1]; stp D(out), d0, [x4], #16; b ->L
LoopStore ==
    /\ fslice.at = "store"
    /\ fslice' = [fslice EXCEPT !.at = "L", !.x4 = (@ + 16) % Wrap,
                                !.stored = @ + SIMD_WIDTH]
    /\ UNCHANGED <<callVars, metal>>

\* ->E: restore the saved registers and return
SliceReturn ==
    /\ fslice.at = "E"
    /\ fslice' = [fslice EXCEPT !.at = "ret"]
    /\ UNCHANGED <<callVars, metal>>

InitSlice ==
    /\ Init
    /\ src = VmDataDefault

\* The instructions of the function, which the processor runs one after the
\* other
SliceStep ==
    \/ LoopTest
    \/ LoopLoad
    \/ TapeBody
    \/ LoopStore
    \/ SliceReturn

NextSlice ==
    \/ \E size \in 0..MaxSize : SliceCall(size)
    \/ LoopTest
    \/ LoopLoad
    \/ TapeBody
    \/ LoopStore
    \/ SliceReturn

SpecSlice == InitSlice /\ [][NextSlice]_vars /\ WF_vars(SliceStep)



\* C29: called with a point count that is a multiple of 4, the float-slice
\* loop ends. Whenever it is back at its test it has done iters rounds, each
\* of which loaded 4 X, Y and Z values, took exactly 4 off x5, stored 4
\* outputs and moved x0, x1, x2 and x4 on by 16 bytes; it leaves the loop only
\* with x5 = 0, after exactly size / 4 rounds (none for size 0), and it
\* returns.
SliceCounts ==
    (fslice.at \in {"L", "E", "ret"} /\ fslice.size % SIMD_WIDTH = 0)
    => /\ fslice.x5 = fslice.size - SIMD_WIDTH * fslice.iters
       /\ fslice.x0 = 16 * fslice.iters
       /\ fslice.x1 = 16 * fslice.iters
       /\ fslice.x2 = 16 * fslice.iters
       /\ fslice.x4 = 16 * fslice.iters
       /\ fslice.loaded = SIMD_WIDTH * fslice.iters
       /\ fslice.stored = SIMD_WIDTH * fslice.iters
       /\ fslice.at \in {"E", "ret"}
            => fslice.x5 = 0 /\ SIMD_WIDTH * fslice.iters = fslice.size

BindingTable ==
    /\ \A s \in 1..Len(bind) : bind[s] # SENTINEL => bind[s] < count
    /\ count <= Len(src.ssa.tape)
    /\ \A n \in 0..(count - 1) : \E s \in 1..Len(bind) : bind[s] = n
    /\ count < SENTINEL
    /\ \A k \in 1..Len(ops_out) : output(ops_out[k]) < count

C30_BindingTable ==
    /\ [](pc = "loop" => BindingTable)
    /\ [][(pc = "loop") => (count' >= count /\ BindingTable')]_vars

C30_Witness ==
    /\ pc = "done"
    /\ count >= 2
    /\ count < Len(src.ssa.tape)
    /\ \E s, t \in 1..Len(bind) : s # t /\ bind[s] = bind[t] /\ bind[s] # SENTINEL
    /\ \E s \in 1..Len(bind) : bind[s] = SENTINEL


====
